---------------------------- MODULE Spec2Model ----------------------------
(***************************************************************************)
(* Model of the sniffles-cdk worker lambdas:                               *)
(*   - lib/filterLambda.ts        (Record Filter: matcher compiler,        *)
(*                                 record decoder, handler)                *)
(*   - lib/subscriptionLambda.ts  (Log-Group Selector)                     *)
(*                                                                         *)
(* Text is modelled character by character: a string is a sequence of      *)
(* one-character strings, so that substring search, regular-expression     *)
(* matching, JSON parsing and path queries are computed, not assumed.      *)
(***************************************************************************)
EXTENDS Integers, Sequences, FiniteSets, TLC

(***************************************************************************)
(* Characters.                                                             *)
(***************************************************************************)
Digits == {"0", "1", "2", "3", "4", "5", "6", "7", "8", "9"}
LowerLetters == {"a", "b", "c", "d", "e", "f", "g", "h", "i", "j", "k", "l", "m",
                 "n", "o", "p", "q", "r", "s", "t", "u", "v", "w", "x", "y", "z"}
UpperLetters == {"A", "B", "C", "D", "E", "F", "G", "H", "I", "J", "K", "L", "M",
                 "N", "O", "P", "Q", "R", "S", "T", "U", "V", "W", "X", "Y", "Z"}
Whitespace == {" ", "\n", "\t"}

\* String.prototype.toLowerCase on one character (the canonical form the
\* ignoreCase flag compares)
toLowerCase(c) ==
  CASE c = "A" -> "a" [] c = "B" -> "b" [] c = "C" -> "c" [] c = "D" -> "d"
    [] c = "E" -> "e" [] c = "F" -> "f" [] c = "G" -> "g" [] c = "H" -> "h"
    [] c = "I" -> "i" [] c = "J" -> "j" [] c = "K" -> "k" [] c = "L" -> "l"
    [] c = "M" -> "m" [] c = "N" -> "n" [] c = "O" -> "o" [] c = "P" -> "p"
    [] c = "Q" -> "q" [] c = "R" -> "r" [] c = "S" -> "s" [] c = "T" -> "t"
    [] c = "U" -> "u" [] c = "V" -> "v" [] c = "W" -> "w" [] c = "X" -> "x"
    [] c = "Y" -> "y" [] c = "Z" -> "z" [] OTHER -> c

(***************************************************************************)
(* String primitives.                                                      *)
(***************************************************************************)
\* s.slice(i-1, i-1+Len(p)) === p : p occurs in s at (1-based) position i
OccursAt(p, s, i) ==
  /\ i + Len(p) - 1 <= Len(s)
  /\ \A k \in 1..Len(p) : s[i + k - 1] = p[k]

\* String.prototype.indexOf(p, from): the scan ramda's _indexOf delegates to
\* for a string needle; 1-based, 0 when absent
RECURSIVE indexOf(_, _, _)
indexOf(s, p, from) ==
  IF from + Len(p) - 1 > Len(s) THEN 0
  ELSE IF OccursAt(p, s, from) THEN from
  ELSE indexOf(s, p, from + 1)

\* ramda includes(a, list) = _indexOf(list, a, 0) >= 0
includes(p, s) == indexOf(s, p, 1) > 0

\* ramda startsWith / endsWith on strings
startsWith(prefix, s) ==
  Len(prefix) <= Len(s) /\ SubSeq(s, 1, Len(prefix)) = prefix
endsWith(suffix, s) ==
  Len(suffix) <= Len(s) /\ SubSeq(s, Len(s) - Len(suffix) + 1, Len(s)) = suffix

\* ramda trim = String.prototype.trim
RECURSIVE trimStart(_)
trimStart(s) ==
  IF s # <<>> /\ Head(s) \in Whitespace THEN trimStart(Tail(s)) ELSE s
RECURSIVE trimEnd(_)
trimEnd(s) ==
  IF s # <<>> /\ s[Len(s)] \in Whitespace
  THEN trimEnd(SubSeq(s, 1, Len(s) - 1)) ELSE s
trim(s) == trimEnd(trimStart(s))

\* ramda map over a list
map(F(_), xs) == [i \in 1..Len(xs) |-> F(xs[i])]

(***************************************************************************)
(* The regular-expression engine (new RegExp / RegExp.prototype.test),     *)
(* for the dialect the patterns of the model use: literal characters, '.', *)
(* '^', '$', character classes [..] without ranges, and postfix '*'.       *)
(* The alphabet has '(' but no ')', so a '(' is an unterminated group.     *)
(***************************************************************************)
\* index of the first "]" after i, 0 when the class is unterminated
RECURSIVE ClassEnd(_, _)
ClassEnd(re, i) ==
  IF i > Len(re) THEN 0
  ELSE IF re[i] = "]" THEN i
  ELSE ClassEnd(re, i + 1)

\* last index of the atom that starts at i
AtomEnd(re, i) == IF re[i] = "[" THEN ClassEnd(re, i + 1) ELSE i

\* the pattern parser of new RegExp(source): FALSE is a SyntaxError
RECURSIVE SyntaxOk(_, _)
SyntaxOk(re, i) ==
  IF i > Len(re) THEN TRUE
  ELSE IF re[i] \in {"^", "$"} THEN SyntaxOk(re, i + 1)
  ELSE IF re[i] = "*" THEN FALSE              \* nothing to repeat
  ELSE IF re[i] = "(" THEN FALSE              \* unterminated group
  ELSE LET e == AtomEnd(re, i) IN
       IF e = 0 THEN FALSE                     \* unterminated character class
       ELSE IF e < Len(re) /\ re[e + 1] = "*" THEN SyntaxOk(re, e + 2)
       ELSE SyntaxOk(re, e + 1)

\* the flags parser of new RegExp(source, flags): a repeated flag is a
\* SyntaxError
FlagsOk(flags) ==
  \A i, j \in 1..Len(flags) : i # j => flags[i] # flags[j]

CharEq(a, b, ignoreCase) ==
  IF ignoreCase THEN toLowerCase(a) = toLowerCase(b) ELSE a = b

\* does the atom re[i..e] accept character c
AtomAccepts(re, i, e, c, ignoreCase) ==
  IF re[i] = "[" THEN \E t \in (i + 1)..(e - 1) : CharEq(re[t], c, ignoreCase)
  ELSE IF re[i] = "." THEN c # "\n"
  ELSE CharEq(re[i], c, ignoreCase)

\* does re[i..] match a prefix of s[j..]
RECURSIVE MatchFrom(_, _, _, _, _)
MatchFrom(re, i, s, j, ignoreCase) ==
  IF i > Len(re) THEN TRUE
  ELSE IF re[i] = "^" THEN j = 1 /\ MatchFrom(re, i + 1, s, j, ignoreCase)
  ELSE IF re[i] = "$" THEN j = Len(s) + 1 /\ MatchFrom(re, i + 1, s, j, ignoreCase)
  ELSE LET e == AtomEnd(re, i) IN
       IF e < Len(re) /\ re[e + 1] = "*"
       THEN \E k \in 0..(Len(s) - j + 1) :
              /\ \A t \in j..(j + k - 1) : AtomAccepts(re, i, e, s[t], ignoreCase)
              /\ MatchFrom(re, e + 2, s, j + k, ignoreCase)
       ELSE /\ j <= Len(s)
            /\ AtomAccepts(re, i, e, s[j], ignoreCase)
            /\ MatchFrom(re, e + 1, s, j + 1, ignoreCase)

IsFlag(flags, f) == \E i \in 1..Len(flags) : flags[i] = f

\* RegExp.prototype.test on a fresh RegExp (lastIndex 0): the match is
\* searched at every start position, at the first one only when sticky
RegExpTest(re, flags, s) ==
  LET starts == IF IsFlag(flags, "y") THEN {1} ELSE 1..(Len(s) + 1) IN
  \E j \in starts : MatchFrom(re, 1, s, j, IsFlag(flags, "i"))

(***************************************************************************)
(* JSON.parse, for the JSON texts of the model: objects, strings without   *)
(* escapes, non-negative integers, true / false / null, with JSON          *)
(* whitespace between tokens.  A parse result is [ok, val, nxt]: ok FALSE  *)
(* is the SyntaxError JSON.parse throws, nxt the index after the value.    *)
(***************************************************************************)
JNull == [t |-> "null", s |-> <<>>, n |-> 0, members |-> <<>>]
JStr(s) == [t |-> "str", s |-> s, n |-> 0, members |-> <<>>]
JNum(n) == [t |-> "num", s |-> <<>>, n |-> n, members |-> <<>>]
JLit(name) == [t |-> name, s |-> <<>>, n |-> 0, members |-> <<>>]
JObj(members) == [t |-> "obj", s |-> <<>>, n |-> 0, members |-> members]
ParseFail == [ok |-> FALSE, val |-> JNull, nxt |-> 0]
ParseOk(v, nxt) == [ok |-> TRUE, val |-> v, nxt |-> nxt]

RECURSIVE SkipWs(_, _)
SkipWs(s, i) ==
  IF i <= Len(s) /\ s[i] \in Whitespace THEN SkipWs(s, i + 1) ELSE i

\* index of the quote that closes a string opened before k, 0 when the text
\* ends or a control character comes first
RECURSIVE StringEnd(_, _)
StringEnd(s, k) ==
  IF k > Len(s) THEN 0
  ELSE IF s[k] = "\"" THEN k
  ELSE IF s[k] \in {"\n", "\t"} THEN 0
  ELSE StringEnd(s, k + 1)

\* last index of the run of digits that starts at i
RECURSIVE DigitsEnd(_, _)
DigitsEnd(s, i) ==
  IF i + 1 <= Len(s) /\ s[i + 1] \in Digits THEN DigitsEnd(s, i + 1) ELSE i

DigitValue(c) ==
  CASE c = "0" -> 0 [] c = "1" -> 1 [] c = "2" -> 2 [] c = "3" -> 3
    [] c = "4" -> 4 [] c = "5" -> 5 [] c = "6" -> 6 [] c = "7" -> 7
    [] c = "8" -> 8 [] c = "9" -> 9

RECURSIVE NumberValue(_)
NumberValue(ds) ==
  IF ds = <<>> THEN 0
  ELSE 10 * NumberValue(SubSeq(ds, 1, Len(ds) - 1)) + DigitValue(ds[Len(ds)])

ParseString(s, i) ==
  LET k == StringEnd(s, i + 1) IN
  IF k = 0 THEN ParseFail ELSE ParseOk(JStr(SubSeq(s, i + 1, k - 1)), k + 1)

\* a leading zero ends the number: "01" leaves "1" unread, which the caller
\* rejects
ParseNumber(s, i) ==
  LET e == IF s[i] = "0" THEN i ELSE DigitsEnd(s, i) IN
  ParseOk(JNum(NumberValue(SubSeq(s, i, e))), e + 1)

ParseLiteral(s, i, word, name) ==
  IF OccursAt(word, s, i) THEN ParseOk(JLit(name), i + Len(word)) ELSE ParseFail

RECURSIVE ParseValue(_, _)
RECURSIVE ParseMembers(_, _, _)
\* the members of an object, from the first key at i, up to the closing "}"
ParseMembers(s, i, acc) ==
  IF i > Len(s) \/ s[i] # "\"" THEN ParseFail
  ELSE LET key == ParseString(s, i) IN
       IF ~key.ok THEN ParseFail
       ELSE LET c == SkipWs(s, key.nxt) IN
            IF c > Len(s) \/ s[c] # ":" THEN ParseFail
            ELSE LET v == ParseValue(s, SkipWs(s, c + 1)) IN
                 IF ~v.ok THEN ParseFail
                 ELSE LET d == SkipWs(s, v.nxt)
                          all == Append(acc, [k |-> key.val.s, val |-> v.val])
                      IN IF d > Len(s) THEN ParseFail
                         ELSE IF s[d] = "}" THEN ParseOk(JObj(all), d + 1)
                         ELSE IF s[d] = "," THEN ParseMembers(s, SkipWs(s, d + 1), all)
                         ELSE ParseFail

ParseValue(s, i) ==
  IF i > Len(s) THEN ParseFail
  ELSE IF s[i] = "{" THEN
       LET j == SkipWs(s, i + 1) IN
       IF j <= Len(s) /\ s[j] = "}" THEN ParseOk(JObj(<<>>), j + 1)
       ELSE ParseMembers(s, j, <<>>)
  ELSE IF s[i] = "\"" THEN ParseString(s, i)
  ELSE IF s[i] \in Digits THEN ParseNumber(s, i)
  ELSE IF s[i] = "t" THEN ParseLiteral(s, i, <<"t", "r", "u", "e">>, "true")
  ELSE IF s[i] = "f" THEN ParseLiteral(s, i, <<"f", "a", "l", "s", "e">>, "false")
  ELSE IF s[i] = "n" THEN ParseLiteral(s, i, <<"n", "u", "l", "l">>, "null")
  ELSE ParseFail

\* JSON.parse(text): one value with nothing but whitespace around it
JSONparse(s) ==
  LET v == ParseValue(s, SkipWs(s, 1)) IN
  IF v.ok /\ SkipWs(s, v.nxt) = Len(s) + 1 THEN v ELSE ParseFail


(***************************************************************************)
(* jspath.apply(path, value), for the path queries of the model:           *)
(*     .{ .<key> === <string or integer literal> }                         *)
(* jspath compiles the path first and throws on a path it cannot parse;    *)
(* the result of the query is the list of selected values.                 *)
(***************************************************************************)
\* last index of the run of letters that starts at i
RECURSIVE IdentEnd(_, _)
IdentEnd(s, i) ==
  IF i + 1 <= Len(s) /\ s[i + 1] \in (LowerLetters \cup UpperLetters)
  THEN IdentEnd(s, i + 1) ELSE i

\* the path parser: [ok, key, lit]; ok FALSE is the Error jspath throws
JspathParse(path) ==
  LET bad == [ok |-> FALSE, key |-> <<>>, lit |-> JNull]
      a == SkipWs(path, 3)
  IN
  IF ~(Len(path) >= 2 /\ path[1] = "." /\ path[2] = "{") THEN bad
  ELSE IF ~(a + 1 <= Len(path) /\ path[a] = "."
            /\ path[a + 1] \in (LowerLetters \cup UpperLetters)) THEN bad
  ELSE LET ke == IdentEnd(path, a + 1)
           op == SkipWs(path, ke + 1)
       IN
       IF ~OccursAt(<<"=", "=", "=">>, path, op) THEN bad
       ELSE LET l == SkipWs(path, op + 3)
                lit == IF l > Len(path) THEN ParseFail
                       ELSE IF path[l] = "\"" THEN ParseString(path, l)
                       ELSE IF path[l] \in Digits
                            THEN ParseOk(JNum(NumberValue(SubSeq(path, l, DigitsEnd(path, l)))),
                                         DigitsEnd(path, l) + 1)
                       ELSE ParseFail
            IN
            IF ~lit.ok THEN bad
            ELSE LET c == SkipWs(path, lit.nxt) IN
                 IF c = Len(path) /\ path[c] = "}"
                 THEN [ok |-> TRUE, key |-> SubSeq(path, a + 1, ke), lit |-> lit.val]
                 ELSE bad

\* the value of property key of an object: the last member of that name
\* (JSON.parse keeps the last of duplicate keys); <<>> when there is none
RECURSIVE PropertyOf(_, _, _)
PropertyOf(members, key, i) ==
  IF i = 0 THEN <<>>
  ELSE IF members[i].k = key THEN <<members[i].val>>
  ELSE PropertyOf(members, key, i - 1)

\* === of jspath: same type and same value
StrictEquals(v, lit) ==
  /\ v.t = lit.t
  /\ \/ v.t = "str" /\ v.s = lit.s
     \/ v.t = "num" /\ v.n = lit.n

\* the list the compiled query selects from value: the value itself when
\* the predicate holds of it, nothing otherwise
JspathSelect(q, value) ==
  LET got == IF value.t = "obj"
             THEN PropertyOf(value.members, q.key, Len(value.members))
             ELSE <<>>
  IN IF got # <<>> /\ StrictEquals(got[1], q.lit) THEN <<value>> ELSE <<>>

(***************************************************************************)
(* filterLambda.ts: the pattern-matcher compiler.                          *)
(* A matcher is [kind, str, flags]; applying one yields "true", "false" or *)
(* "throw" (an exception leaves the matcher).                              *)
(***************************************************************************)
RegExpFlags == {"g", "i", "m", "s", "u", "y"}

\* index of the second "/" of a /body/flags pattern, 0 when str has not
\* that shape: test(/^\/[^/]+\/[gimsuy]*$/)
RECURSIVE NextSlash(_, _)
NextSlash(str, i) ==
  IF i > Len(str) THEN 0
  ELSE IF str[i] = "/" THEN i
  ELSE NextSlash(str, i + 1)

\* Variant of IsRegExpShape that takes any lower-case letters for flags.
IsRegExpShapeAnyLetter(str) ==
  /\ Len(str) >= 3
  /\ str[1] = "/"
  /\ LET k == NextSlash(str, 2) IN
       /\ k >= 3
       /\ \A t \in (k + 1)..Len(str) : str[t] \in LowerLetters

IsRegExpShape(str) ==
  /\ Len(str) >= 3
  /\ str[1] = "/"
  /\ LET k == NextSlash(str, 2) IN
       /\ k >= 3
       /\ \A t \in (k + 1)..Len(str) : str[t] \in RegExpFlags

IsJspathShape(str) == startsWith(<<"{">>, str) /\ endsWith(<<"}">>, str)

ThrowingMatcher == [kind |-> "throw", str |-> <<>>, flags |-> <<>>]

\* toRegExp then test: new RegExp(body, flags) throws a SyntaxError on a
\* body or on flags it cannot parse
toRegExpFn(str) ==
  LET k == NextSlash(str, 2)
      re == SubSeq(str, 2, k - 1)
      flags == SubSeq(str, k + 1, Len(str))
  IN IF SyntaxOk(re, 1) /\ FlagsOk(flags)
     THEN [kind |-> "regexp", str |-> re, flags |-> flags]
     ELSE ThrowingMatcher

\* toJspathFn(str) only builds the pipe; nothing of str is parsed yet
toJspathFn(str) == [kind |-> "jspath", str |-> str, flags |-> <<>>]

\* Variant of toStringFn that compiles the string as a regular expression,
\* as the Selector compiles its patterns.
toStringFnAsRegExp(str) == [kind |-> "regexp", str |-> str, flags |-> <<>>]

\* toStringFn = includes
toStringFn(str) == [kind |-> "string", str |-> str, flags |-> <<>>]

toMatcherFunction(str) ==
  IF IsRegExpShape(str) THEN toRegExpFn(str)
  ELSE IF IsJspathShape(str) THEN toJspathFn(str)
  ELSE toStringFn(str)

\* groupMatch(/({[\s\S]+})/): the leftmost "{" that has a "}" at least two
\* characters later, up to the last such "}" (the + is greedy); <<>> is
\* none, <<block>> is some([block]) after head
RECURSIVE NearestBrace(_, _)
NearestBrace(s, i) ==
  IF i > Len(s) THEN 0
  ELSE IF s[i] = "}" THEN i
  ELSE NearestBrace(s, i + 1)

RECURSIVE LastBrace(_, _)
LastBrace(s, i) ==
  IF i = 0 THEN 0
  ELSE IF s[i] = "}" THEN i
  ELSE LastBrace(s, i - 1)

RECURSIVE FirstBlockStart(_, _, _)
FirstBlockStart(s, i, last) ==
  IF i + 2 > last THEN 0
  ELSE IF s[i] = "{" THEN i
  ELSE FirstBlockStart(s, i + 1, last)

\* Variant of groupMatch with a lazy quantifier: the block ends at the
\* nearest "}".
groupMatchLazy(s) ==
  LET last == LastBrace(s, Len(s))
      first == FirstBlockStart(s, 1, last)
  IN IF first = 0 THEN <<>>
     ELSE <<SubSeq(s, first, NearestBrace(s, first + 2))>>

groupMatch(s) ==
  LET last == LastBrace(s, Len(s))
      first == FirstBlockStart(s, 1, last)
  IN IF first = 0 THEN <<>> ELSE <<SubSeq(s, first, last)>>

\* the pipe toJspathFn builds, applied to a message, stage by stage.
\* optmap(jspathApply), length, gt 0: jspathApply runs in a plain optmap,
\* so the Error of a path it cannot parse leaves the pipe
jspathApplyStage(q, value) ==
  IF ~q.ok THEN "throw"
  ELSE IF Len(JspathSelect(q, value)) > 0 THEN "true" ELSE "false"

\* optchain(optTryCatch(JSON.parse)): a SyntaxError becomes none, and
\* optGetOrElse turns none into false
jsonParseStage(str, parsed) ==
  IF ~parsed.ok THEN "false"
  ELSE jspathApplyStage(JspathParse(<<".">> \o str), parsed.val)

\* groupMatch, optmap(head): no block is none
blockStage(str, block) ==
  IF block = <<>> THEN "false" ELSE jsonParseStage(str, JSONparse(block[1]))

ApplyJspath(str, message) == blockStage(str, groupMatch(message))

\* a compiled matcher applied to a message
ApplyMatcher(m, message) ==
  CASE m.kind = "regexp" ->
         (IF RegExpTest(m.str, m.flags, message) THEN "true" ELSE "false")
    [] m.kind = "jspath" -> ApplyJspath(m.str, message)
    [] m.kind = "string" ->
         (IF includes(m.str, message) THEN "true" ELSE "false")

\* Variant of anyPass that asks every matcher to pass, as ramda allPass
\* does: the first "false" or the first exception ends the evaluation.
RECURSIVE allPass(_, _, _)
allPass(fns, message, i) ==
  IF i > Len(fns) THEN "true"
  ELSE LET r == ApplyMatcher(fns[i], message) IN
       IF r = "true" THEN allPass(fns, message, i + 1) ELSE r

\* ramda anyPass(fns)(message): the matchers are tried in order and the
\* first "true" or the first exception ends the evaluation
RECURSIVE anyPass(_, _, _)
anyPass(fns, message, i) ==
  IF i > Len(fns) THEN "false"
  ELSE LET r == ApplyMatcher(fns[i], message) IN
       IF r = "false" THEN anyPass(fns, message, i + 1) ELSE r


(***************************************************************************)
(* filterLambda.ts: the record decoder.                                    *)
(* The transport payload is modelled by its layers: kinesis.data is the    *)
(* base64 text of a buffer; a buffer is the bytes of a text, gzip-         *)
(* compressed or not; a text is the JSON of a LogMessage or is no JSON.    *)
(***************************************************************************)
NoLogMessage == [owner |-> <<>>, logGroup |-> <<>>, logEvents |-> <<>>]

\* Buffer.from(str, 'base64')
base64decode(str) == str.base64

\* Variant of unzip that gives up on a buffer that is no gzip.
unzipOrNothing(buf) ==
  IF buf.gzip THEN [gzip |-> FALSE, text |-> buf.text]
  ELSE [gzip |-> FALSE, text |-> [json |-> FALSE, value |-> NoLogMessage]]

\* gunzipSync(buf) inflates a gzip buffer and throws on any other; the
\* catch returns the buffer as it came
unzip(buf) == IF buf.gzip THEN [gzip |-> FALSE, text |-> buf.text] ELSE buf

\* ramda toString of a Buffer: its bytes read as UTF-8; compressed bytes
\* read as text are no JSON
toString(buf) ==
  IF buf.gzip THEN [json |-> FALSE, value |-> NoLogMessage] ELSE buf.text

\* Variant of perLogEvent that passes the LogMessage on whole.
perLogEventWhole(m) == <<m>>

\* the last stage of parseRecord: one LogMessage per log event
perLogEvent(m) ==
  [i \in 1..Len(m.logEvents) |-> [m EXCEPT !.logEvents = <<m.logEvents[i]>>]]

\* parseRecord: [ok, out]; ok FALSE is the SyntaxError of JSON.parse
parseRecord(record) ==
  LET text == toString(unzip(base64decode(record.kinesis.data))) IN
  IF text.json THEN [ok |-> TRUE, out |-> perLogEvent(text.value)]
  ELSE [ok |-> FALSE, out |-> <<>>]

Thrown == [ok |-> FALSE, out |-> <<>>]
Returned(out) == [ok |-> TRUE, out |-> out]

\* Variant of chainStep that leaves out a record that throws.
chainStepSkipping(r, rest) ==
  IF ~rest.ok THEN Thrown
  ELSE Returned((IF r.ok THEN r.out ELSE <<>>) \o rest.out)

\* Variant of chainStep that puts the later records first.
chainStepLaterFirst(r, rest) ==
  IF ~r.ok \/ ~rest.ok THEN Thrown ELSE Returned(rest.out \o r.out)

\* ramda chain(parseRecord)(Records): the decoded lists concatenated in
\* record order; a record that throws ends the whole chain
chainStep(r, rest) ==
  IF ~r.ok \/ ~rest.ok THEN Thrown ELSE Returned(r.out \o rest.out)

RECURSIVE chainParseRecord(_, _)
chainParseRecord(records, i) ==
  IF i > Len(records) THEN Returned(<<>>)
  ELSE chainStep(parseRecord(records[i]), chainParseRecord(records, i + 1))

\* pathSatisfies(anyPass(fns))(['logEvents', 0, 'message'])
messageSatisfies(fns, log) == anyPass(fns, log.logEvents[1].message, 1)

\* ramda filter / reject with a predicate that may throw; keep is the
\* verdict that keeps an element ("true" for filter, "false" for reject)
filterStep(v, keep, log, rest) ==
  IF v = "throw" \/ ~rest.ok THEN Thrown
  ELSE Returned((IF v = keep THEN <<log>> ELSE <<>>) \o rest.out)

RECURSIVE filterBy(_, _, _, _)
filterBy(fns, logs, keep, i) ==
  IF i > Len(logs) THEN Returned(<<>>)
  ELSE filterStep(messageSatisfies(fns, logs[i]), keep, logs[i],
                  filterBy(fns, logs, keep, i + 1))

\* filter(pathSatisfies(anyPass(inclusionFunctions))(...))
filterStage(inclusionFunctions, decoded) ==
  IF ~decoded.ok THEN Thrown ELSE filterBy(inclusionFunctions, decoded.out, "true", 1)

\* reject(pathSatisfies(anyPass(exclusionFunctions))(...))
rejectStage(exclusionFunctions, included) ==
  IF ~included.ok THEN Thrown ELSE filterBy(exclusionFunctions, included.out, "false", 1)

\* the synchronous pipe of the handler up to map(publishLog): the logs to
\* publish, or Thrown when a stage throws
selectLogs(inclusionFunctions, exclusionFunctions, ev) ==
  rejectStage(exclusionFunctions,
              filterStage(inclusionFunctions, chainParseRecord(ev, 1)))

\* map(toMatcherFunction) on a list the store returned: [ok, fns]; ok
\* FALSE when compiling a pattern throws
compiled(fns) ==
  IF \E i \in 1..Len(fns) : fns[i] = ThrowingMatcher
  THEN [ok |-> FALSE, fns |-> <<>>]
  ELSE [ok |-> TRUE, fns |-> fns]

\* getInclusionPatterns / getExclusionPatterns: .then(map(trim)), and then
\* .then(map(toMatcherFunction))
compilePatterns(patterns) ==
  compiled([i \in 1..Len(patterns) |-> toMatcherFunction(trim(patterns[i]))])

(***************************************************************************)
(* Inputs of the Record Filter: messages, patterns, records.               *)
(***************************************************************************)
\* {"level":"error"}
MsgError ==
  <<"{", "\"", "l", "e", "v", "e", "l", "\"", ":", "\"", "e", "r", "r",
    "o", "r", "\"", "}">>

\* {"level":"error","b":7}
MsgErrorB ==
  <<"{", "\"", "l", "e", "v", "e", "l", "\"", ":", "\"", "e", "r", "r",
    "o", "r", "\"", ",", "\"", "b", "\"", ":", "7", "}">>

\* {"level":"info"}
MsgInfo ==
  <<"{", "\"", "l", "e", "v", "e", "l", "\"", ":", "\"", "i", "n", "f",
    "o", "\"", "}">>

\* ERROR: boom
MsgText ==
  <<"E", "R", "R", "O", "R", ":", " ", "b", "o", "o", "m">>

\* { .level === "error" }   (the default inclusion pattern)
PatLevelError ==
  <<"{", " ", ".", "l", "e", "v", "e", "l", " ", "=", "=", "=", " ", "\"",
    "e", "r", "r", "o", "r", "\"", " ", "}">>

\* { .b === 7 }
PatB ==
  <<"{", " ", ".", "b", " ", "=", "=", "=", " ", "7", " ", "}">>

\* { .b === }   (a path query jspath cannot parse)
PatBadPath ==
  <<"{", " ", ".", "b", " ", "=", "=", "=", " ", "}">>

\* /ERROR/
PatRegExp ==
  <<"/", "E", "R", "R", "O", "R", "/">>

\* /error/i
PatRegExpI ==
  <<"/", "e", "r", "r", "o", "r", "/", "i">>

\* /(/   (a body that is no regular expression)
PatBadBody ==
  <<"/", "(", "/">>

\* /a/gg   (a repeated flag)
PatBadFlags ==
  <<"/", "a", "/", "g", "g">>

\* " ERROR "   (as stored, before trim)
PatPadded ==
  <<" ", "E", "R", "R", "O", "R", " ">>

\* ^$   (the default exclusion pattern)
PatCaretDollar ==
  <<"^", "$">>

\* ERROR ^$
MsgCaret ==
  <<"E", "R", "R", "O", "R", " ", "^", "$">>

\* the pattern lists the configuration store may hold for the Filter
FilterInclusionLists ==
  { <<PatLevelError>>, <<PatRegExp, PatLevelError>>, <<PatPadded>>,
    <<PatBadPath>>, <<PatPadded, PatBadPath>>, <<PatBadBody>>, <<>> }
FilterExclusionLists ==
  { <<PatCaretDollar>>, <<PatB>>, <<PatRegExpI>>, <<PatBadPath>>,
    <<PatBadFlags>>, <<>> }

LogEvent(id, message) == [id |-> id, message |-> message]
LogMessage(logGroup, logEvents) ==
  [owner |-> <<"1", "2">>, logGroup |-> logGroup, logEvents |-> logEvents]

\* a record as the log-shipping service writes it: JSON, gzip, base64
KinesisRecord(m) ==
  [kinesis |-> [data |-> [base64 |->
     [gzip |-> TRUE, text |-> [json |-> TRUE, value |-> m]]]]]
\* a record as test/filter.spec.ts builds it: JSON, base64, no gzip
PlainRecord(m) ==
  [kinesis |-> [data |-> [base64 |->
     [gzip |-> FALSE, text |-> [json |-> TRUE, value |-> m]]]]]
\* a record whose payload is no JSON
MalformedRecord ==
  [kinesis |-> [data |-> [base64 |->
     [gzip |-> FALSE, text |-> [json |-> FALSE, value |-> NoLogMessage]]]]]

Records ==
  { KinesisRecord(LogMessage(<<"/", "a">>, <<>>)),
    KinesisRecord(LogMessage(<<"/", "a">>, <<LogEvent(1, MsgError)>>)),
    KinesisRecord(LogMessage(<<"/", "b">>,
                             <<LogEvent(2, MsgErrorB), LogEvent(3, MsgInfo)>>)),
    PlainRecord(LogMessage(<<"/", "c">>,
                           <<LogEvent(4, MsgText), LogEvent(5, MsgError)>>)),
    KinesisRecord(LogMessage(<<"/", "d">>, <<LogEvent(6, MsgCaret)>>)),
    MalformedRecord }

\* number of records of a batch
MaxRecords == 2

RECURSIVE SeqsUpTo(_, _)
SeqsUpTo(S, n) ==
  IF n = 0 THEN {<<>>}
  ELSE LET shorter == SeqsUpTo(S, n - 1) IN
       shorter \cup {Append(s, x) : s \in shorter, x \in S}

KinesisStreamEvents == SeqsUpTo(Records, MaxRecords)


(***************************************************************************)
(* subscriptionLambda.ts: the Log-Group Selector.                          *)
(***************************************************************************)
\* /[sS]niffles/
SnifflesRegExp ==
  <<"[", "s", "S", "]", "n", "i", "f", "f", "l", "e", "s">>

\* toRegExp then test, for one pattern of the Selector: new RegExp(str)
toLogGroupTest(str) ==
  IF SyntaxOk(str, 1) THEN [kind |-> "regexp", str |-> str, flags |-> <<>>]
  ELSE ThrowingMatcher

\* patternsToFunctions = map(pipe(toRegExp, test)): [ok, fns]; ok FALSE
\* when new RegExp throws on a pattern
patternsToFunctions(patterns) ==
  compiled([i \in 1..Len(patterns) |-> toLogGroupTest(patterns[i])])

\* Variant of rejectSniffles whose guard knows the lower-case spelling only.
rejectSnifflesLowerCase(logGroupNames) ==
  SelectSeq(logGroupNames,
            LAMBDA n : ~RegExpTest(<<"s", "n", "i", "f", "f", "l", "e", "s">>, <<>>, n))

\* reject(test(/[sS]niffles/))
rejectSniffles(logGroupNames) ==
  SelectSeq(logGroupNames, LAMBDA n : ~RegExpTest(SnifflesRegExp, <<>>, n))

\* filter(anyPass(inclusion functions))
filterIncluded(fns, logGroupNames) ==
  SelectSeq(logGroupNames, LAMBDA n : anyPass(fns, n, 1) = "true")

\* Variant of rejectExcluded without the exclusion stage.
rejectExcludedSkipped(fns, logGroupNames) == logGroupNames

\* reject(anyPass(exclusion functions))
rejectExcluded(fns, logGroupNames) ==
  SelectSeq(logGroupNames, LAMBDA n : anyPass(fns, n, 1) # "true")

\* the pipe of filterLogGroups; its three stages are built, and so both
\* pattern lists are compiled, before the pipe runs
pipeLogGroups(inclusionFunctions, exclusionFunctions, logGroupNames) ==
  IF ~inclusionFunctions.ok \/ ~exclusionFunctions.ok THEN Thrown
  ELSE Returned(rejectExcluded(exclusionFunctions.fns,
                  filterIncluded(inclusionFunctions.fns,
                    rejectSniffles(logGroupNames))))

filterLogGroups(logGroupNames, inclusionPatterns, exclusionPatterns) ==
  pipeLogGroups(patternsToFunctions(inclusionPatterns),
                patternsToFunctions(exclusionPatterns), logGroupNames)

\* Variant of subscribeLogGroup without the catch.
subscribeLogGroupNoCatch(callOk) == IF callOk THEN "fulfilled" ELSE "rejected"

\* subscribeLogGroup: putSubscriptionFilter(...).promise().catch(console.warn)
\* -- how its promise settles once the call has succeeded or failed: the
\* catch turns a failure into a fulfilment (with undefined)
subscribeLogGroup(callOk) == IF callOk THEN "fulfilled" ELSE "fulfilled"

(***************************************************************************)
(* Inputs of the Selector: log group names and pattern lists.              *)
(***************************************************************************)
\* prod-a
ProdA ==
  <<"p", "r", "o", "d", "-", "a">>

\* prod-b
ProdB ==
  <<"p", "r", "o", "d", "-", "b">>

\* test-a
TestA ==
  <<"t", "e", "s", "t", "-", "a">>

\* sniffles-prod
SnifflesLower ==
  <<"s", "n", "i", "f", "f", "l", "e", "s", "-", "p", "r", "o", "d">>

\* prod-Sniffles
SnifflesCapital ==
  <<"p", "r", "o", "d", "-", "S", "n", "i", "f", "f", "l", "e", "s">>

\* SNIFFLES-prod
SnifflesUpper ==
  <<"S", "N", "I", "F", "F", "L", "E", "S", "-", "p", "r", "o", "d">>

\* ^prod-.*
PatProd ==
  <<"^", "p", "r", "o", "d", "-", ".", "*">>

\* .*
PatAll ==
  <<".", "*">>

\* -a$
PatEndsA ==
  <<"-", "a", "$">>

\* -b$
PatEndsB ==
  <<"-", "b", "$">>

\* ^$
PatNothing ==
  <<"^", "$">>

\* (
PatUnterminated ==
  <<"(">>

\*  prod 
PatPaddedProd ==
  <<" ", "p", "r", "o", "d", " ">>

LogGroupNames ==
  {ProdA, ProdB, TestA, SnifflesLower, SnifflesCapital, SnifflesUpper}

\* number of log groups of the account
MaxLogGroups == 3

LogGroupLists == SeqsUpTo(LogGroupNames, MaxLogGroups)

LogGroupInclusionLists ==
  { <<PatProd>>, <<PatAll>>, <<PatEndsA, PatPaddedProd>>, <<PatUnterminated, PatAll>>,
    <<>> }
LogGroupExclusionLists ==
  { <<>>, <<PatNothing>>, <<PatEndsB>>, <<PatEndsA, PatUnterminated>> }

(***************************************************************************)
(* subscriptionLambda.ts: getLogGroups, the paginated enumeration.         *)
(* The account's log groups come in pages; page k carries the token of     *)
(* page k + 1, the last page carries none.  A page is <<names>>, or <<>>   *)
(* when the response has no logGroups.  A token is the number of the page  *)
(* it stands for, 0 being no token.                                        *)
(***************************************************************************)
\* what cwl.describeLogGroups({ nextToken: token }) answers
describeLogGroups(allPages, token) ==
  [logGroups |-> allPages[IF token = 0 THEN 1 ELSE token],
   nextToken |-> IF (IF token = 0 THEN 1 ELSE token) < Len(allPages)
                 THEN (IF token = 0 THEN 1 ELSE token) + 1 ELSE 0]

\* logGroups ?? []
orEmpty(logGroups) == IF logGroups = <<>> THEN <<>> ELSE logGroups[1]

\* Variant of concat that puts the later pages first.
concatLaterFirst(own, rest) == rest \o own

\* ramda concat(own)(rest), the callback of .then(concat(logGroups ?? []))
concat(own, rest) == own \o rest

\* lambdas/subscriber/handler.ts getLogGroups: the same enumeration as a
\* loop that pushes the names of each page
RECURSIVE getLogGroupsLoop(_, _, _)
getLogGroupsLoop(allPages, token, groups) ==
  IF describeLogGroups(allPages, token).nextToken = 0
  THEN groups \o orEmpty(describeLogGroups(allPages, token).logGroups)
  ELSE getLogGroupsLoop(allPages, describeLogGroups(allPages, token).nextToken,
         groups \o orEmpty(describeLogGroups(allPages, token).logGroups))

\* the reduce of getLogGroupsAndPatterns: the names of the groups that have
\* one
namesOf(groups) == SelectSeq(groups, LAMBDA n : n # <<>>)

(***************************************************************************)
(* Inputs of the enumeration and of two overlapping invocations.           *)
(***************************************************************************)
Pages ==
  { <<>>, <<<<>>>>, <<<<ProdA>>>>, <<<<ProdB, TestA>>>>,
    <<<<SnifflesLower, ProdA>>>> }

\* number of pages of an enumeration
MaxPages == 3

Paginations == SeqsUpTo(Pages, MaxPages) \ {<<>>}

OverlapPaginations ==
  { <<<<<<ProdA, ProdB>>>>>>,
    <<<<<<ProdA>>>>, <<<<SnifflesLower, ProdB>>>>>>,
    <<<<<<>>>>, <<>>, <<<<TestA, ProdA>>>>>>,
    <<<<<<ProdB>>>>, <<<<ProdB>>>>>> }

OverlapPatternLists ==
  { [inclusions |-> <<PatAll>>, exclusions |-> <<>>],
    [inclusions |-> <<PatEndsA, PatPaddedProd>>, exclusions |-> <<PatEndsB>>],
    [inclusions |-> <<PatUnterminated, PatAll>>, exclusions |-> <<>>] }

Invocations == {"first", "second"}

(***************************************************************************)
(* opsGenie/forwarderLambda.ts: the OpsGenie Forwarder.                    *)
(* The Message of an SNS record is a JSON text; the model keeps of it      *)
(* whether it is JSON, whether it has insignificant white space, and the   *)
(* value it denotes.                                                       *)
(***************************************************************************)
\* JSON.parse(event.Records[0].Sns.Message): [ok, val]
parseLogMessage(text) ==
  IF text.json THEN [ok |-> TRUE, val |-> text.value]
  ELSE [ok |-> FALSE, val |-> NoLogMessage]

\* JSON.stringify(logMessage): the text without insignificant white space
stringify(value) == [json |-> TRUE, spaced |-> FALSE, value |-> value]

\* the decimal digits of a natural number
RECURSIVE NumberString(_)
NumberString(n) ==
  IF n < 10 THEN <<CHOOSE c \in Digits : DigitValue(c) = n>>
  ELSE Append(NumberString(n \div 10),
              CHOOSE c \in Digits : DigitValue(c) = n % 10)

\* a JSON value, or the undefined of a property that is not there (<<>>),
\* inside a template literal
TemplateString(got) ==
  IF got = <<>> THEN <<"u", "n", "d", "e", "f", "i", "n", "e", "d">>
  ELSE CASE got[1].t = "str" -> got[1].s
         [] got[1].t = "num" -> NumberString(got[1].n)
         [] got[1].t = "obj" -> <<"[", "o", "b", "j", "e", "c", "t", " ", "O", "b", "j", "e", "c", "t", "]">>
         [] got[1].t = "null" -> <<"n", "u", "l", "l">>
         [] got[1].t = "true" -> <<"t", "r", "u", "e">>
         [] OTHER -> <<"f", "a", "l", "s", "e">>

\* logLine.message: the property of an object; undefined of a string, a
\* number or a boolean; a TypeError of null
messageOf(logLine) ==
  IF logLine.t = "null" THEN [ok |-> FALSE, got |-> <<>>]
  ELSE IF logLine.t = "obj"
  THEN [ok |-> TRUE,
        got |-> PropertyOf(logLine.members, <<"m", "e", "s", "s", "a", "g", "e">>, Len(logLine.members))]
  ELSE [ok |-> TRUE, got |-> <<>>]

\* the longest Subject the handler lets through: take(100, ...)
SubjectLength == 100

\* ramda take(n, s)
take(n, s) == IF Len(s) <= n THEN s ELSE SubSeq(s, 1, n)

\* Variant of subjectOf that does not cut the text.
subjectOfWhole(owner, logGroup, got) ==
  owner \o <<" ">> \o logGroup \o <<" ">> \o TemplateString(got)

\* take(100, `${owner} ${logGroup} ${logLine.message}`)
subjectOf(owner, logGroup, got) ==
  take(SubjectLength,
       owner \o <<" ">> \o logGroup \o <<" ">> \o TemplateString(got))

\* the PublishInput of the handler
publishInputOf(logMessage, got) ==
  [TopicArn |-> "topic",
   Subject |-> subjectOf(logMessage.owner, logMessage.logGroup, got),
   Message |-> stringify(logMessage),
   MessageAttributes |->
     [eventType |-> [DataType |-> "String", StringValue |-> "create"]]]

\* the statements of the handler before the publish: [ok, input]; ok FALSE
\* is an exception, which rejects the promise of the async function
inputFromField(logMessage, field) ==
  IF field.ok THEN [ok |-> TRUE, input |-> <<publishInputOf(logMessage, field.got)>>]
  ELSE [ok |-> FALSE, input |-> <<>>]

inputFromLogLine(logMessage, logLine) ==
  IF logLine.ok THEN inputFromField(logMessage, messageOf(logLine.val))
  ELSE [ok |-> FALSE, input |-> <<>>]

inputFromLogMessage(logMessage) ==
  IF logMessage.ok /\ Len(logMessage.val.logEvents) > 0
  THEN inputFromLogLine(logMessage.val,
                        JSONparse(logMessage.val.logEvents[1].message))
  ELSE [ok |-> FALSE, input |-> <<>>]

publishInput(ev) == inputFromLogMessage(parseLogMessage(ev[1].Sns.Message))

(***************************************************************************)
(* Inputs of the Forwarder: the envelopes the Filter publishes.            *)
(***************************************************************************)
\* {"message":"hello there"}
LineHello ==
  <<"{", "\"", "m", "e", "s", "s", "a", "g", "e", "\"", ":", "\"", "h", "e", "l", "l", "o", " ", "t", "h", "e", "r", "e", "\"", "}">>

\* {"message":7}
LineNumber ==
  <<"{", "\"", "m", "e", "s", "s", "a", "g", "e", "\"", ":", "7", "}">>

\* {"message":true}
LineTrue ==
  <<"{", "\"", "m", "e", "s", "s", "a", "g", "e", "\"", ":", "t", "r", "u", "e", "}">>

\* {"message":{"a":1}}
LineObject ==
  <<"{", "\"", "m", "e", "s", "s", "a", "g", "e", "\"", ":", "{", "\"", "a", "\"", ":", "1", "}", "}">>

\* {"level":"error"}
LineNoMessage ==
  <<"{", "\"", "l", "e", "v", "e", "l", "\"", ":", "\"", "e", "r", "r", "o", "r", "\"", "}">>

\* null
LineNull ==
  <<"n", "u", "l", "l">>

\* ERROR: boom
LineText ==
  <<"E", "R", "R", "O", "R", ":", " ", "b", "o", "o", "m">>

LogLines ==
  {LineHello, LineNumber, LineTrue, LineObject, LineNoMessage, LineNull, LineText, <<>>}

\* 111122223333
Owner ==
  <<"1", "1", "1", "1", "2", "2", "2", "2", "3", "3", "3", "3">>

\* /aws/lambda/prod-a; a name with which owner, blank, name and blank fill a
\* Subject to the last character; a name with which the Subject ends inside
\* the message
ForwardedLogGroups ==
  { <<"/", "a", "w", "s", "/", "l", "a", "m", "b", "d", "a", "/", "p", "r", "o", "d", "-", "a">>,
    [i \in 1..(SubjectLength - 14) |-> "g"],
    [i \in 1..(SubjectLength - 20) |-> "h"] }

\* the record the notification service delivers for a publish of the Filter
SNSRecord(spaced, logMessage) ==
  [Sns |-> [Message |-> [json |-> TRUE, spaced |-> spaced, value |-> logMessage]]]

SNSEvents ==
  { <<SNSRecord(spaced, [LogMessage(logGroup, <<LogEvent(1, line)>>)
                           EXCEPT !.owner = Owner])>> :
      spaced \in BOOLEAN, logGroup \in ForwardedLogGroups, line \in LogLines }

(***************************************************************************)
(* Inputs of the matcher compiler on its own.                              *)
(***************************************************************************)
\* ERROR
PatWord ==
  <<"E", "R", "R", "O", "R">>

\* a.b
PatDot ==
  <<"a", ".", "b">>

\* /^$/
PatAnchored ==
  <<"/", "^", "$", "/">>

\* /ERROR/y
PatSticky ==
  <<"/", "E", "R", "R", "O", "R", "/", "y">>

\* /a/x   (x is no flag: not of the /body/flags shape)
PatOtherFlag ==
  <<"/", "a", "/", "x">>

\* a.b
MsgDot ==
  <<"a", ".", "b">>

\* axb
MsgNoDot ==
  <<"a", "x", "b">>

\* a^$
MsgCaretDollar ==
  <<"a", "^", "$">>

\* x {"b":7} y
MsgEmbedded ==
  <<"x", " ", "{", "\"", "b", "\"", ":", "7", "}", " ", "y">>

\* {"b":7} {"b":8}
MsgTwoBlocks ==
  <<"{", "\"", "b", "\"", ":", "7", "}", " ", "{", "\"", "b", "\"", ":",
    "8", "}">>

\* x ERROR
MsgLate ==
  <<"x", " ", "E", "R", "R", "O", "R">>

\* error
MsgLower ==
  <<"e", "r", "r", "o", "r">>

\* {b:7}   (a block that is no JSON)
MsgNoJson ==
  <<"{", "b", ":", "7", "}">>

\* {"b":7}
MsgBlock ==
  <<"{", "\"", "b", "\"", ":", "7", "}">>

\* {"b":7} }
MsgTrailingBrace ==
  <<"{", "\"", "b", "\"", ":", "7", "}", " ", "}">>

\* {"b":<LF>7}, a line feed inside the block
MsgTwoLines ==
  <<"{", "\"", "b", "\"", ":", "\n", "7", "}">>

\* {"a":1} x {"b":7} y
MsgSecondBlock ==
  <<"{", "\"", "a", "\"", ":", "1", "}", " ", "x", " ", "{", "\"", "b", "\"", ":", "7", "}", " ", "y">>

Patterns ==
  { PatLevelError, PatB, PatBadPath, PatRegExp, PatRegExpI, PatBadBody,
    PatBadFlags, PatCaretDollar, PatWord, PatDot, PatAnchored, PatSticky,
    PatOtherFlag, <<>> }

Messages ==
  { MsgError, MsgErrorB, MsgInfo, MsgText, MsgDot, MsgNoDot, MsgCaretDollar,
    MsgEmbedded, MsgTwoBlocks, MsgLate, MsgLower, MsgNoJson, MsgBlock,
    MsgTrailingBrace, MsgTwoLines, MsgSecondBlock, <<>> }

(***************************************************************************)
(* keys.ts: the richer Record Filter, which reads one list of patterns,    *)
(* adds a logLink to every selected envelope and publishes it with a       *)
(* Subject.  Its matcher compiler (toWhitelistFn) and its decoder          *)
(* (parseRecord) are copies of those of filterLambda.ts.                   *)
(***************************************************************************)
\* ramda split('\t'): the pieces of the text between the tabs, from
\* position i on, the piece begun being acc
RECURSIVE splitTab(_, _, _)
splitTab(s, i, acc) ==
  IF i > Len(s) THEN <<acc>>
  ELSE IF s[i] = "\t" THEN <<acc>> \o splitTab(s, i + 1, <<>>)
  ELSE splitTab(s, i + 1, Append(acc, s[i]))

\* ramda drop(1)
drop1(xs) == IF xs = <<>> THEN <<>> ELSE Tail(xs)

\* ramda head of a list: <<x>> is x, <<>> is undefined
head(xs) == IF xs = <<>> THEN <<>> ELSE <<xs[1]>>

\* getLogId: the text between the first and the second tab of the message
getLogId(m) == head(drop1(splitTab(m.logEvents[1].message, 1, <<>>)))

\* a string or undefined inside a template literal
StringOrUndefined(got) ==
  IF got = <<>> THEN <<"u", "n", "d", "e", "f", "i", "n", "e", "d">> ELSE got[1]

\* m.logGroup.replace(/\//g, '$252F'): the pattern has no group, so the
\* replacement is the text $252F
RECURSIVE replaceSlashes(_)
replaceSlashes(s) ==
  IF s = <<>> THEN <<>>
  ELSE (IF s[1] = "/" THEN <<"$", "2", "5", "2", "F">> ELSE <<s[1]>>)
         \o replaceSlashes(Tail(s))

\* the URL of the template literal, awsRegion being eu-west-1
logLinkOf(m) ==
  <<"h", "t", "t", "p", "s", ":", "/", "/", "e", "u", "-", "w", "e", "s", "t", "-", "1", ".", "c", "o", "n", "s", "o", "l", "e", ".", "a", "w", "s", ".", "a", "m", "a", "z", "o", "n", ".", "c", "o", "m", "/", "c", "l", "o", "u", "d", "w", "a", "t", "c", "h", "/", "h", "o", "m", "e", "?", "r", "e", "g", "i", "o", "n", "=", "e", "u", "-", "w", "e", "s", "t", "-", "1", "#", "l", "o", "g", "s", "V", "2", ":", "l", "o", "g", "-", "g", "r", "o", "u", "p", "s", "/", "l", "o", "g", "-", "g", "r", "o", "u", "p", "/">>
    \o replaceSlashes(m.logGroup)
    \o <<"/", "l", "o", "g", "-", "e", "v", "e", "n", "t", "s", "$", "3", "F", "f", "i", "l", "t", "e", "r", "P", "a", "t", "t", "e", "r", "n", "$", "3", "D", "$", "2", "5", "2", "2">>
    \o StringOrUndefined(getLogId(m))
    \o <<"$", "2", "5", "2", "2">>

\* Variant of addLogLink that leaves the encoded name in logGroup too.
addLogLinkEncodingGroup(m) ==
  [f \in DOMAIN m \cup {"logLink"} |->
     IF f = "logLink" THEN logLinkOf(m)
     ELSE IF f = "logGroup" THEN replaceSlashes(m.logGroup)
     ELSE m[f]]

\* addLogLink = set(lensProp('logLink'), url, m): a copy of m with the
\* property logLink set
addLogLink(m) ==
  [f \in DOMAIN m \cup {"logLink"} |->
     IF f = "logLink" THEN logLinkOf(m) ELSE m[f]]

\* parseMessage: JSON.parse(log.logEvents[0].message).message, '' when that
\* throws; <<>> is undefined
parsedMessageField(parsed) ==
  IF ~parsed.ok THEN <<JStr(<<>>)>>
  ELSE IF ~messageOf(parsed.val).ok THEN <<JStr(<<>>)>>
  ELSE messageOf(parsed.val).got

parseMessage(log) == parsedMessageField(JSONparse(log.logEvents[1].message))

\* the errorMessage of the environment
ErrorMessage ==
  <<"E", "r", "r", "o", "r">>

\* x || errorMessage: undefined, null, false, 0 and '' are falsy
orErrorMessage(got) ==
  IF got = <<>> THEN <<JStr(ErrorMessage)>>
  ELSE IF got[1].t \in {"null", "false"} THEN <<JStr(ErrorMessage)>>
  ELSE IF got[1].t = "str" /\ got[1].s = <<>> THEN <<JStr(ErrorMessage)>>
  ELSE IF got[1].t = "num" /\ got[1].n = 0 THEN <<JStr(ErrorMessage)>>
  ELSE got

\* the PublishInput of publishLog in keys.ts, accountId being the owner of
\* the model's envelopes
keysPublishInput(log) ==
  [TopicArn |-> "topic",
   Message |-> stringify(log),
   Subject |-> take(SubjectLength,
                    Owner \o <<" ">> \o log.logGroup \o <<" ">>
                      \o TemplateString(orErrorMessage(parseMessage(log)))),
   MessageAttributes |->
     [eventType |-> [DataType |-> "String", StringValue |-> "create"]]]

\* publishLog of keys.ts returns the promise of the request
keysPublishLog(log) ==
  [log |-> log, input |-> keysPublishInput(log), request |-> "inflight"]

\* map(addLogLink) over what the filter stage selected
mapAddLogLink(included) ==
  IF ~included.ok THEN Thrown
  ELSE Returned([i \in 1..Len(included.out) |-> addLogLink(included.out[i])])

\* the pipe of the handler up to map(publishLog)
selectAndLink(whitelistFns, ev) ==
  mapAddLogLink(filterStage(whitelistFns, chainParseRecord(ev, 1)))

(***************************************************************************)
(* Inputs of the richer Record Filter.                                     *)
(***************************************************************************)
\* t<TAB>id-1<TAB>ERROR x
MsgTabbed ==
  <<"t", "\t", "i", "d", "-", "1", "\t", "E", "R", "R", "O", "R", " ", "x">>

\* t<TAB>ERROR
MsgOneTab ==
  <<"t", "\t", "E", "R", "R", "O", "R">>

KeysRecords ==
  { KinesisRecord(LogMessage(<<"/", "a", "/", "b">>,
                             <<LogEvent(1, MsgTabbed), LogEvent(2, MsgInfo)>>)),
    PlainRecord(LogMessage(<<"/", "c">>,
                           <<LogEvent(3, MsgText), LogEvent(4, MsgOneTab)>>)),
    KinesisRecord(LogMessage(<<"d">>, <<LogEvent(5, MsgError)>>)),
    MalformedRecord }

KeysEvents == SeqsUpTo(KeysRecords, MaxRecords)

Whitelists == { <<PatWord>>, <<PatLevelError, PatPadded>>, <<PatBadBody>>, <<>> }

(***************************************************************************)
(* State.                                                                  *)
(***************************************************************************)
VARIABLES
  \* Record Filter (filterLambda.ts handler), one invocation
  event,               \* the KinesisStreamEvent's Records
  filterInclusions,    \* the store's filter inclusion pattern list
  filterExclusions,    \* the store's filter exclusion pattern list
  pc,                  \* position of the handler's promise chain
  inclusionFunctions,  \* getInclusionPatterns().then(map(toMatcherFunction))
  exclusionFunctions,  \* getExclusionPatterns().then(map(toMatcherFunction))
  publishes,           \* the sns.publish requests issued, in order
  result,              \* how the handler's promise settled
  \* matcher compiler on its own (toMatcherFunction(pattern)(message))
  pattern, message, matcher, verdict, mpc,
  \* Log-Group Selector (subscriptionLambda.ts handler)
  logGroups,           \* the account's log group names, in enumeration order
  logGroupInclusions,  \* the store's subscription inclusion pattern list
  logGroupExclusions,  \* the store's subscription exclusion pattern list
  spc,                 \* position of the handler's promise chain
  fetched,             \* what getLogGroupsAndPatterns resolved with
  selected,            \* what filterLogGroups returned
  requests,            \* the putSubscriptionFilter requests issued, in order
  sresult,             \* how the handler's promise settled
  subscribed,          \* the log groups that have the subscription filter
  previous,            \* what the invocation before this one did
  \* OpsGenie Forwarder (opsGenie/forwarderLambda.ts handler), one invocation
  snsEvent,            \* the SNSEvent's Records
  fpc,                 \* position of the handler
  fpublishes,          \* the sns.publish requests issued, in order
  fresult,             \* how the handler's promise settled
  \* richer Record Filter (keys.ts handler), one invocation
  keysEvent,           \* the KinesisStreamEvent's Records
  whitelist,           \* the store's pattern list
  kpc,                 \* position of the handler's promise chain
  whitelistFns,        \* getWhitelist().then(map(toWhitelistFn))
  kpublishes,          \* the sns.publish requests issued, in order
  kresult,             \* how the handler's promise settled
  \* Selector invocations with a paginated enumeration, two overlapping
  pages,               \* the account's log groups, page by page
  stored,              \* the store's subscription pattern lists
  subscriptionFilters, \* the log groups that have the subscription filter
  inv                  \* per invocation, the state of its promise chain

filterVars == <<event, filterInclusions, filterExclusions, pc,
                inclusionFunctions, exclusionFunctions, publishes, result>>
matcherVars == <<pattern, message, matcher, verdict, mpc>>
selectorVars == <<logGroups, logGroupInclusions, logGroupExclusions, spc,
                  fetched, selected, requests, sresult, subscribed,
                  previous>>
forwarderVars == <<snsEvent, fpc, fpublishes, fresult>>
keysVars == <<keysEvent, whitelist, kpc, whitelistFns, kpublishes, kresult>>
overlapVars == <<pages, stored, subscriptionFilters, inv>>
vars == <<filterVars, matcherVars, selectorVars, forwarderVars, keysVars,
          overlapVars>>

(***************************************************************************)
(* The Record Filter handler.                                              *)
(***************************************************************************)
Idle == [read |-> "none", state |-> "none", fns |-> <<>>]

FilterInit ==
  /\ event \in KinesisStreamEvents
  /\ filterInclusions \in FilterInclusionLists
  /\ filterExclusions \in FilterExclusionLists
  /\ pc = "start"
  /\ inclusionFunctions = Idle
  /\ exclusionFunctions = Idle
  /\ publishes = <<>>
  /\ result = "pending"

FilterIdle ==
  /\ event = <<>>
  /\ filterInclusions = <<>>
  /\ filterExclusions = <<>>
  /\ pc = "idle"
  /\ inclusionFunctions = Idle
  /\ exclusionFunctions = Idle
  /\ publishes = <<>>
  /\ result = "pending"

\* handler(event) calls getPatternsFunctions(): both reads are requested
Invoke ==
  /\ pc = "start"
  /\ pc' = "patterns"
  /\ inclusionFunctions' = [Idle EXCEPT !.read = "pending", !.state = "pending"]
  /\ exclusionFunctions' = [Idle EXCEPT !.read = "pending", !.state = "pending"]
  /\ UNCHANGED <<matcherVars, selectorVars, forwarderVars, keysVars, overlapVars>>
  /\ UNCHANGED <<event, filterInclusions, filterExclusions, publishes, result>>

\* how one branch of the Promise.all of getPatternsFunctions settles: the
\* read fails, or the list arrives and is compiled
Settled(c) ==
  IF c.ok THEN [read |-> "ok", state |-> "fulfilled", fns |-> c.fns]
  ELSE [read |-> "ok", state |-> "rejected", fns |-> <<>>]

PatternsSettle(readOk, patterns) ==
  IF ~readOk THEN [read |-> "failed", state |-> "rejected", fns |-> <<>>]
  ELSE Settled(compilePatterns(patterns))

InclusionPatternsArrive ==
  /\ inclusionFunctions.state = "pending"
  /\ \E readOk \in BOOLEAN :
       inclusionFunctions' = PatternsSettle(readOk, filterInclusions)
  /\ UNCHANGED <<matcherVars, selectorVars, forwarderVars, keysVars, overlapVars>>
  /\ UNCHANGED <<event, filterInclusions, filterExclusions, pc,
                 exclusionFunctions, publishes, result>>

ExclusionPatternsArrive ==
  /\ exclusionFunctions.state = "pending"
  /\ \E readOk \in BOOLEAN :
       exclusionFunctions' = PatternsSettle(readOk, filterExclusions)
  /\ UNCHANGED <<matcherVars, selectorVars, forwarderVars, keysVars, overlapVars>>
  /\ UNCHANGED <<event, filterInclusions, filterExclusions, pc,
                 inclusionFunctions, publishes, result>>

\* publishLog(log): an async function whose body calls
\* sns.publish(...).promise() and neither awaits nor returns it, so the
\* promise publishLog returns is fulfilled at once, whatever becomes of the
\* request
publishLog(log) == [log |-> log, request |-> "inflight", returned |-> "fulfilled"]

\* map(publishLog) over the logs the pipe selected; an exception of a
\* stage of the pipe rejects the chain instead
MapPublishLog(logs) ==
  IF logs.ok
  THEN /\ publishes' = [i \in 1..Len(logs.out) |-> publishLog(logs.out[i])]
       /\ pc' = "published"
  ELSE /\ publishes' = publishes
       /\ pc' = "thrown"

\* Variant of Process that does not wait for the exclusion list.
ProcessBeforeExclusions ==
  /\ pc = "patterns"
  /\ inclusionFunctions.state = "fulfilled"
  /\ exclusionFunctions.state \in {"pending", "fulfilled"}
  /\ MapPublishLog(selectLogs(inclusionFunctions.fns, exclusionFunctions.fns, event))
  /\ UNCHANGED <<matcherVars, selectorVars, forwarderVars, keysVars, overlapVars>>
  /\ UNCHANGED <<event, filterInclusions, filterExclusions,
                 inclusionFunctions, exclusionFunctions, result>>

\* the .then callback of the handler: decode, filter, reject, publish
Process ==
  /\ pc = "patterns"
  /\ inclusionFunctions.state = "fulfilled"
  /\ exclusionFunctions.state = "fulfilled"
  /\ MapPublishLog(selectLogs(inclusionFunctions.fns, exclusionFunctions.fns, event))
  /\ UNCHANGED <<matcherVars, selectorVars, forwarderVars, keysVars, overlapVars>>
  /\ UNCHANGED <<event, filterInclusions, filterExclusions,
                 inclusionFunctions, exclusionFunctions, result>>

\* Promise.all over the promises map(publishLog) returned, then
\* .then(() => 'OK'): a rejected one would reject the chain
ResolveOK ==
  /\ pc = "published"
  /\ \A i \in 1..Len(publishes) : publishes[i].returned # "pending"
  /\ IF \E i \in 1..Len(publishes) : publishes[i].returned = "rejected"
     THEN pc' = "thrown" /\ result' = result
     ELSE pc' = "done" /\ result' = "OK"
  /\ UNCHANGED <<matcherVars, selectorVars, forwarderVars, keysVars, overlapVars>>
  /\ UNCHANGED <<event, filterInclusions, filterExclusions,
                 inclusionFunctions, exclusionFunctions, publishes>>

\* .catch(console.error): a rejection anywhere in the chain is logged and
\* the handler's promise is fulfilled with undefined
CatchError ==
  /\ \/ pc = "thrown"
     \/ /\ pc = "patterns"
        /\ "rejected" \in {inclusionFunctions.state, exclusionFunctions.state}
  /\ pc' = "done"
  /\ result' = "undefined"
  /\ UNCHANGED <<matcherVars, selectorVars, forwarderVars, keysVars, overlapVars>>
  /\ UNCHANGED <<event, filterInclusions, filterExclusions,
                 inclusionFunctions, exclusionFunctions, publishes>>

\* the notification service answers a publish request.  The answer is an
\* I/O event: it is delivered after the microtasks of the handler's chain
\* have run, that is after the handler's promise has settled
PublishSettles ==
  /\ pc = "done"
  /\ \E i \in 1..Len(publishes) :
       /\ publishes[i].request = "inflight"
       /\ \E outcome \in {"ok", "failed"} :
            publishes' = [publishes EXCEPT ![i].request = outcome]
  /\ UNCHANGED <<matcherVars, selectorVars, forwarderVars, keysVars, overlapVars>>
  /\ UNCHANGED <<event, filterInclusions, filterExclusions, pc,
                 inclusionFunctions, exclusionFunctions, result>>

(***************************************************************************)
(* The matcher compiler on its own: compile one pattern, apply the         *)
(* matcher to one message.                                                 *)
(***************************************************************************)
MatcherInit ==
  /\ pattern \in Patterns
  /\ message \in Messages
  /\ matcher = ThrowingMatcher
  /\ verdict = "none"
  /\ mpc = "start"

MatcherIdle ==
  /\ pattern = <<>>
  /\ message = <<>>
  /\ matcher = ThrowingMatcher
  /\ verdict = "none"
  /\ mpc = "idle"

\* toMatcherFunction(pattern): the cond picks a compiler by shape; the
\* compiler may throw
Compile ==
  /\ mpc = "start"
  /\ matcher' = toMatcherFunction(pattern)
  /\ mpc' = IF matcher' = ThrowingMatcher THEN "thrown" ELSE "compiled"
  /\ verdict' = IF matcher' = ThrowingMatcher THEN "throw" ELSE verdict
  /\ UNCHANGED <<pattern, message>>
  /\ UNCHANGED <<filterVars, selectorVars, forwarderVars, keysVars, overlapVars>>

\* the compiled matcher called with the message
Apply ==
  /\ mpc = "compiled"
  /\ verdict' = ApplyMatcher(matcher, message)
  /\ mpc' = "applied"
  /\ UNCHANGED <<pattern, message, matcher>>
  /\ UNCHANGED <<filterVars, selectorVars, forwarderVars, keysVars, overlapVars>>

(***************************************************************************)
(* The Log-Group Selector handler.                                         *)
(***************************************************************************)
NothingFetched == [logGroupNames |-> <<>>, inclusionPatterns |-> <<>>,
                   exclusionPatterns |-> <<>>, error |-> "none"]

\* no invocation came before
NoPrevious == [run |-> 0, requested |-> {}, subscribed |-> {}, clean |-> TRUE]

SelectorInit ==
  /\ logGroups \in LogGroupLists
  /\ logGroupInclusions \in LogGroupInclusionLists
  /\ logGroupExclusions \in LogGroupExclusionLists
  /\ spc = "start"
  /\ fetched = NothingFetched
  /\ selected = <<>>
  /\ requests = <<>>
  /\ sresult = "pending"
  /\ subscribed = {}
  /\ previous = NoPrevious

SelectorIdle ==
  /\ logGroups = <<>>
  /\ logGroupInclusions = <<>>
  /\ logGroupExclusions = <<>>
  /\ spc = "idle"
  /\ fetched = NothingFetched
  /\ selected = <<>>
  /\ requests = <<>>
  /\ sresult = "pending"
  /\ subscribed = {}
  /\ previous = NoPrevious

\* handler() calls getLogGroupsAndPatterns(): the enumeration and the two
\* reads are requested
SelectorInvoke ==
  /\ spc = "start"
  /\ spc' = "fetching"
  /\ UNCHANGED <<logGroups, logGroupInclusions, logGroupExclusions, fetched,
                 selected, requests, sresult, subscribed>>
  /\ UNCHANGED <<filterVars, matcherVars, previous, forwarderVars, keysVars, overlapVars>>

\* the Promise.all of getLogGroupsAndPatterns settles: with the names
\* (groups without a name dropped) and the trimmed pattern lists, or with
\* the rejection of the call that failed
LogGroupsAndPatternsArrive ==
  /\ spc = "fetching"
  /\ \E failed \in {"none", "describeLogGroups", "inclusions", "exclusions"} :
       IF failed = "none"
       THEN /\ fetched' = [logGroupNames |-> SelectSeq(logGroups, LAMBDA n : n # <<>>),
                           inclusionPatterns |-> [i \in 1..Len(logGroupInclusions) |->
                                                    trim(logGroupInclusions[i])],
                           exclusionPatterns |-> [i \in 1..Len(logGroupExclusions) |->
                                                    trim(logGroupExclusions[i])],
                           error |-> "none"]
            /\ spc' = "fetched"
       ELSE /\ fetched' = [NothingFetched EXCEPT !.error = failed]
            /\ spc' = "thrown"
  /\ UNCHANGED <<logGroups, logGroupInclusions, logGroupExclusions, selected,
                 requests, sresult, subscribed>>
  /\ UNCHANGED <<filterVars, matcherVars, previous, forwarderVars, keysVars, overlapVars>>

\* .then(filterLogGroups), .then(tap(console.log))
Selects(names) ==
  IF names.ok
  THEN selected' = names.out /\ spc' = "filtered"
  ELSE selected' = selected /\ spc' = "thrown"

FilterLogGroups ==
  /\ spc = "fetched"
  /\ Selects(filterLogGroups(fetched.logGroupNames, fetched.inclusionPatterns,
                             fetched.exclusionPatterns))
  /\ UNCHANGED <<logGroups, logGroupInclusions, logGroupExclusions, fetched,
                 requests, sresult, subscribed>>
  /\ UNCHANGED <<filterVars, matcherVars, previous, forwarderVars, keysVars, overlapVars>>

\* Variant of putSubscriptionFilterInput that filters on a pattern.
putSubscriptionFilterInputWithPattern(logGroupName) ==
  [logGroupName |-> logGroupName, roleArn |-> "cloudWatchRole",
   filterPattern |-> <<"E", "R", "R", "O", "R">>, filterName |-> "LogsToKinesis",
   destinationArn |-> "kinesisStream", distribution |-> "Random"]

\* the input of cwl.putSubscriptionFilter in subscribeLogGroup; the role and
\* the stream are the values of the environment
putSubscriptionFilterInput(logGroupName) ==
  [logGroupName |-> logGroupName, roleArn |-> "cloudWatchRole",
   filterPattern |-> <<>>, filterName |-> "LogsToKinesis",
   destinationArn |-> "kinesisStream", distribution |-> "Random"]

\* Variant of mapSubscribeLogGroup that leaves out the names that have the
\* subscription filter already.
mapSubscribeLogGroupNewOnly(names) ==
  [i \in 1..Len(SelectSeq(names, LAMBDA n : n \notin subscribed)) |->
     [input |-> putSubscriptionFilterInput(
                  SelectSeq(names, LAMBDA n : n \notin subscribed)[i]),
      logGroupName |-> SelectSeq(names, LAMBDA n : n \notin subscribed)[i],
      call |-> "inflight", promise |-> "pending"]]

\* map(subscribeLogGroup): the requests, each with the promise
\* subscribeLogGroup returns for it
mapSubscribeLogGroup(names) ==
  [i \in 1..Len(names) |->
     [input |-> putSubscriptionFilterInput(names[i]),
      logGroupName |-> names[i],
      call |-> "inflight", promise |-> "pending"]]

\* Variant of putSubscriptionFilter that takes the filter off every other
\* log group.
putSubscriptionFilterOnly(filters, logGroupName) == {logGroupName}

\* what a successful putSubscriptionFilter does to the set of log groups
\* that have the subscription filter: putting it again changes nothing
putSubscriptionFilter(filters, logGroupName) == filters \cup {logGroupName}

\* .then(map(subscribeLogGroup)): one putSubscriptionFilter request per
\* selected name, in order
MapSubscribeLogGroup ==
  /\ spc = "filtered"
  /\ requests' = mapSubscribeLogGroup(selected)
  /\ spc' = "subscribing"
  /\ UNCHANGED <<logGroups, logGroupInclusions, logGroupExclusions, fetched,
                 selected, sresult, subscribed>>
  /\ UNCHANGED <<filterVars, matcherVars, previous, forwarderVars, keysVars, overlapVars>>

\* the logs service answers one request: the filter is put, or the call
\* fails
SubscriptionSettles ==
  /\ \E i \in 1..Len(requests) :
       /\ requests[i].call = "inflight"
       /\ \E callOk \in BOOLEAN :
            /\ requests' = [requests EXCEPT
                              ![i].call = IF callOk THEN "ok" ELSE "failed",
                              ![i].promise = subscribeLogGroup(callOk)]
            /\ subscribed' = IF callOk
                             THEN putSubscriptionFilter(subscribed,
                                                        requests[i].logGroupName)
                             ELSE subscribed
  /\ UNCHANGED <<logGroups, logGroupInclusions, logGroupExclusions, spc,
                 fetched, selected, sresult>>
  /\ UNCHANGED <<filterVars, matcherVars, previous, forwarderVars, keysVars, overlapVars>>

\* .then(Promise.all.bind(Promise)).then(() => 'OK'): fulfilled when every
\* promise is, rejected as soon as one is
SelectorResolve ==
  /\ spc = "subscribing"
  /\ IF \E i \in 1..Len(requests) : requests[i].promise = "rejected"
     THEN spc' = "thrown" /\ sresult' = sresult
     ELSE /\ \A i \in 1..Len(requests) : requests[i].promise = "fulfilled"
          /\ spc' = "done"
          /\ sresult' = "OK"
  /\ UNCHANGED <<logGroups, logGroupInclusions, logGroupExclusions, fetched,
                 selected, requests, subscribed>>
  /\ UNCHANGED <<filterVars, matcherVars, previous, forwarderVars, keysVars, overlapVars>>

\* .catch(console.error): the rejection is logged and the handler's
\* promise is fulfilled with undefined
SelectorCatch ==
  /\ spc = "thrown"
  /\ spc' = "done"
  /\ sresult' = "undefined"
  /\ UNCHANGED <<logGroups, logGroupInclusions, logGroupExclusions, fetched,
                 selected, requests, subscribed>>
  /\ UNCHANGED <<filterVars, matcherVars, previous, forwarderVars, keysVars, overlapVars>>

(***************************************************************************)
(* The OpsGenie Forwarder handler.                                         *)
(***************************************************************************)
ForwarderInit ==
  /\ snsEvent \in SNSEvents
  /\ fpc = "start"
  /\ fpublishes = <<>>
  /\ fresult = "pending"

ForwarderIdle ==
  /\ snsEvent = <<>>
  /\ fpc = "idle"
  /\ fpublishes = <<>>
  /\ fresult = "pending"

\* the handler up to its await: the publish is requested, or an exception
\* of one of the two JSON.parse or of logLine.message rejects the promise
Forward(input) ==
  IF input.ok
  THEN /\ fpublishes' = <<[input |-> input.input[1], call |-> "inflight"]>>
       /\ fpc' = "publishing"
       /\ fresult' = fresult
  ELSE /\ fpublishes' = fpublishes
       /\ fpc' = "done"
       /\ fresult' = "rejected"

Handle ==
  /\ fpc = "start"
  /\ Forward(publishInput(snsEvent))
  /\ UNCHANGED snsEvent
  /\ UNCHANGED <<filterVars, matcherVars, selectorVars, keysVars, overlapVars>>

\* await publish(...): the notification service answers, and the handler
\* returns 'OK' or its promise rejects with the error of the publish
ForwardSettles ==
  /\ fpc = "publishing"
  /\ \E callOk \in BOOLEAN :
       /\ fpublishes' = [fpublishes EXCEPT ![1].call = IF callOk THEN "ok" ELSE "failed"]
       /\ fresult' = IF callOk THEN "OK" ELSE "rejected"
  /\ fpc' = "done"
  /\ UNCHANGED snsEvent
  /\ UNCHANGED <<filterVars, matcherVars, selectorVars, keysVars, overlapVars>>

(***************************************************************************)
(* The handler of the richer Record Filter (keys.ts).                      *)
(***************************************************************************)
KeysInit ==
  /\ keysEvent \in KeysEvents
  /\ whitelist \in Whitelists
  /\ kpc = "start"
  /\ whitelistFns = Idle
  /\ kpublishes = <<>>
  /\ kresult = "pending"

KeysIdle ==
  /\ keysEvent = <<>>
  /\ whitelist = <<>>
  /\ kpc = "idle"
  /\ whitelistFns = Idle
  /\ kpublishes = <<>>
  /\ kresult = "pending"

\* handler(event) calls getWhitelist()
KeysInvoke ==
  /\ kpc = "start"
  /\ kpc' = "patterns"
  /\ whitelistFns' = [Idle EXCEPT !.read = "pending", !.state = "pending"]
  /\ UNCHANGED <<keysEvent, whitelist, kpublishes, kresult>>
  /\ UNCHANGED <<filterVars, matcherVars, selectorVars, forwarderVars, overlapVars>>

\* getWhitelist() settles and .then(map(toWhitelistFn)) compiles the list
WhitelistArrives ==
  /\ whitelistFns.state = "pending"
  /\ \E readOk \in BOOLEAN :
       whitelistFns' = PatternsSettle(readOk, whitelist)
  /\ UNCHANGED <<keysEvent, whitelist, kpc, kpublishes, kresult>>
  /\ UNCHANGED <<filterVars, matcherVars, selectorVars, forwarderVars, overlapVars>>

\* map(publishLog) over the envelopes the pipe selected and linked; an
\* exception of a stage of the pipe rejects the chain instead
KeysMapPublishLog(logs) ==
  IF logs.ok
  THEN /\ kpublishes' = [i \in 1..Len(logs.out) |-> keysPublishLog(logs.out[i])]
       /\ kpc' = "published"
  ELSE /\ kpublishes' = kpublishes
       /\ kpc' = "thrown"

\* the .then callback of the handler: decode, filter, link, publish
KeysProcess ==
  /\ kpc = "patterns"
  /\ whitelistFns.state = "fulfilled"
  /\ KeysMapPublishLog(selectAndLink(whitelistFns.fns, keysEvent))
  /\ UNCHANGED <<keysEvent, whitelist, whitelistFns, kresult>>
  /\ UNCHANGED <<filterVars, matcherVars, selectorVars, forwarderVars, overlapVars>>

\* the notification service answers a publish request
KeysPublishSettles ==
  /\ kpc = "published"
  /\ \E i \in 1..Len(kpublishes) :
       /\ kpublishes[i].request = "inflight"
       /\ \E outcome \in {"ok", "failed"} :
            kpublishes' = [kpublishes EXCEPT ![i].request = outcome]
  /\ UNCHANGED <<keysEvent, whitelist, kpc, whitelistFns, kresult>>
  /\ UNCHANGED <<filterVars, matcherVars, selectorVars, forwarderVars, overlapVars>>

\* Promise.all over the promises of the requests, then .then(() => 'OK'):
\* the first request that fails rejects the chain, else all have succeeded
KeysResolve ==
  /\ kpc = "published"
  /\ \/ /\ \A i \in 1..Len(kpublishes) : kpublishes[i].request = "ok"
        /\ kpc' = "done"
        /\ kresult' = "OK"
     \/ /\ \E i \in 1..Len(kpublishes) : kpublishes[i].request = "failed"
        /\ kpc' = "thrown"
        /\ kresult' = kresult
  /\ UNCHANGED <<keysEvent, whitelist, whitelistFns, kpublishes>>
  /\ UNCHANGED <<filterVars, matcherVars, selectorVars, forwarderVars, overlapVars>>

\* .catch(console.error)
KeysCatch ==
  /\ \/ kpc = "thrown"
     \/ kpc = "patterns" /\ whitelistFns.state = "rejected"
  /\ kpc' = "done"
  /\ kresult' = "undefined"
  /\ UNCHANGED <<keysEvent, whitelist, whitelistFns, kpublishes>>
  /\ UNCHANGED <<filterVars, matcherVars, selectorVars, forwarderVars, overlapVars>>

(***************************************************************************)
(* The schedule rule that invokes the Selector, every 15 minutes.          *)
(***************************************************************************)
\* the state of the handler when the rule invokes it
Reinvoked ==
  /\ spc' = "start"
  /\ fetched' = NothingFetched
  /\ selected' = <<>>
  /\ requests' = <<>>
  /\ sresult' = "pending"
  /\ subscribed' = subscribed

\* the names the invocation issued a subscribe request for
Requested == {requests[i].logGroupName : i \in 1..Len(requests)}

\* no external call of the invocation failed
NoCallFailed ==
  /\ fetched.error = "none"
  /\ \A i \in 1..Len(requests) : requests[i].call = "ok"

\* the rule fires: the next invocation
ScheduleTick ==
  /\ spc = "done"
  /\ Reinvoked
  /\ UNCHANGED <<logGroups, logGroupInclusions, logGroupExclusions>>
  /\ UNCHANGED <<filterVars, matcherVars, previous, forwarderVars, keysVars, overlapVars>>

\* what the handler leaves alone while the account or the configuration
\* changes; the changes are taken before the invocation reads anything
BeforeReading ==
  /\ spc = "start"
  /\ UNCHANGED <<spc, fetched, selected, requests, sresult, subscribed>>
  /\ UNCHANGED <<filterVars, matcherVars, previous, forwarderVars, keysVars, overlapVars>>

\* a log group is created in the account
CreateLogGroup ==
  /\ Len(logGroups) < MaxLogGroups
  /\ \E name \in LogGroupNames : logGroups' = Append(logGroups, name)
  /\ UNCHANGED <<logGroupInclusions, logGroupExclusions>>
  /\ BeforeReading

\* a log group is deleted from the account
DeleteLogGroup ==
  /\ \E i \in 1..Len(logGroups) :
       logGroups' = SubSeq(logGroups, 1, i - 1)
                      \o SubSeq(logGroups, i + 1, Len(logGroups))
  /\ UNCHANGED <<logGroupInclusions, logGroupExclusions>>
  /\ BeforeReading

\* the subscription inclusion pattern list is edited
EditInclusionPatterns ==
  /\ logGroupInclusions' \in LogGroupInclusionLists
  /\ UNCHANGED <<logGroups, logGroupExclusions>>
  /\ BeforeReading

\* the subscription exclusion pattern list is edited
EditExclusionPatterns ==
  /\ logGroupExclusions' \in LogGroupExclusionLists
  /\ UNCHANGED <<logGroups, logGroupInclusions>>
  /\ BeforeReading

\* number of invocations in a row
MaxRuns == 2

\* the next invocation with the log groups and the pattern lists as they
\* were
ScheduleTickUnchanged ==
  /\ spc = "done"
  /\ previous.run + 1 < MaxRuns
  /\ previous' = [run |-> previous.run + 1, requested |-> Requested,
                  subscribed |-> subscribed, clean |-> NoCallFailed]
  /\ Reinvoked
  /\ UNCHANGED <<logGroups, logGroupInclusions, logGroupExclusions>>
  /\ UNCHANGED <<filterVars, matcherVars, forwarderVars, keysVars, overlapVars>>

(***************************************************************************)
(* Selector invocations with the enumeration step by step; two of them may *)
(* overlap.  Each invocation has its own promise chain: inv[i] is all the  *)
(* state invocation i reads and writes in memory.  The pages, the stored   *)
(* pattern lists and the set of log groups that have the subscription      *)
(* filter are the platform's.                                              *)
(***************************************************************************)
NotInvoked ==
  [pc |-> "idle", token |-> 0, asked |-> <<>>, frames |-> <<>>,
   resolved |-> <<>>, error |-> "none", fetched |-> NothingFetched, selected |-> <<>>,
   requests |-> <<>>, result |-> "pending"]

Invoked == [NotInvoked EXCEPT !.pc = "start"]

OverlapIdle ==
  /\ pages = <<>>
  /\ stored = [inclusions |-> <<>>, exclusions |-> <<>>]
  /\ subscriptionFilters = {}
  /\ inv = [i \in Invocations |-> NotInvoked]

\* one call of getLogGroups()
EnumerationInit ==
  /\ pages \in Paginations
  /\ stored = [inclusions |-> <<>>, exclusions |-> <<>>]
  /\ subscriptionFilters = {}
  /\ inv = [i \in Invocations |-> IF i = "first" THEN Invoked ELSE NotInvoked]

\* two invocations of the handler that overlap
OverlapInit ==
  /\ pages \in OverlapPaginations
  /\ stored \in OverlapPatternLists
  /\ subscriptionFilters = {}
  /\ inv = [i \in Invocations |-> Invoked]

\* getLogGroups(): the first describeLogGroups is requested, with no token
GetLogGroupsBy(i) ==
  /\ inv[i].pc = "start"
  /\ inv' = [inv EXCEPT ![i].pc = "enumerating", ![i].token = 0,
                        ![i].asked = <<0>>]
  /\ UNCHANGED <<pages, stored, subscriptionFilters>>

GetLogGroups ==
  /\ \E i \in Invocations : GetLogGroupsBy(i)
  /\ UNCHANGED <<filterVars, matcherVars, selectorVars, forwarderVars, keysVars>>

\* the callback of describeLogGroups(...).promise().then: without a
\* nextToken the page resolves the innermost promise; with one, the page
\* waits in a .then(concat(...)) and getLogGroups(nextToken) is called
PageArrives(i, response) ==
  IF response.nextToken = 0
  THEN inv' = [inv EXCEPT ![i].pc = "unwinding",
                          ![i].resolved = orEmpty(response.logGroups)]
  ELSE inv' = [inv EXCEPT ![i].token = response.nextToken,
                          ![i].asked = Append(@, response.nextToken),
                          ![i].frames = Append(@, orEmpty(response.logGroups))]

\* a describeLogGroups call is answered, or fails and with it the whole
\* chain of getLogGroups
DescribeLogGroupsBy(i) ==
  /\ inv[i].pc = "enumerating"
  /\ \E callOk \in BOOLEAN :
       IF callOk THEN PageArrives(i, describeLogGroups(pages, inv[i].token))
       ELSE inv' = [inv EXCEPT ![i].pc = "rejected",
                               ![i].error = "describeLogGroups"]
  /\ UNCHANGED <<pages, stored, subscriptionFilters>>

DescribeLogGroups ==
  /\ \E i \in Invocations : DescribeLogGroupsBy(i)
  /\ UNCHANGED <<filterVars, matcherVars, selectorVars, forwarderVars, keysVars>>

\* .then(concat(logGroups ?? [])) of the innermost call that still waits
ConcatPageBy(i) ==
  /\ inv[i].pc = "unwinding"
  /\ inv[i].frames # <<>>
  /\ inv' = [inv EXCEPT
       ![i].resolved = concat(inv[i].frames[Len(inv[i].frames)], @),
       ![i].frames = SubSeq(@, 1, Len(@) - 1)]
  /\ UNCHANGED <<pages, stored, subscriptionFilters>>

ConcatPage ==
  /\ \E i \in Invocations : ConcatPageBy(i)
  /\ UNCHANGED <<filterVars, matcherVars, selectorVars, forwarderVars, keysVars>>

\* getLogGroups() has resolved: the reduce takes the names
NamesArriveBy(i) ==
  /\ inv[i].pc = "unwinding"
  /\ inv[i].frames = <<>>
  /\ inv' = [inv EXCEPT ![i].pc = "enumerated",
                        ![i].resolved = namesOf(@)]
  /\ UNCHANGED <<pages, stored, subscriptionFilters>>

NamesArrive ==
  /\ \E i \in Invocations : NamesArriveBy(i)
  /\ UNCHANGED <<filterVars, matcherVars, selectorVars, forwarderVars, keysVars>>

\* the Promise.all of getLogGroupsAndPatterns settles
PatternsArriveBy(i) ==
  /\ inv[i].pc = "enumerated"
  /\ \E failed \in {"none", "inclusions", "exclusions"} :
       IF failed = "none"
       THEN inv' = [inv EXCEPT
              ![i].pc = "fetched",
              ![i].fetched =
                 [logGroupNames |-> inv[i].resolved,
                  inclusionPatterns |-> [k \in 1..Len(stored.inclusions) |->
                                           trim(stored.inclusions[k])],
                  exclusionPatterns |-> [k \in 1..Len(stored.exclusions) |->
                                           trim(stored.exclusions[k])],
                  error |-> "none"]]
       ELSE inv' = [inv EXCEPT ![i].pc = "rejected", ![i].error = failed]
  /\ UNCHANGED <<pages, stored, subscriptionFilters>>

PatternsArrive ==
  /\ \E i \in Invocations : PatternsArriveBy(i)
  /\ UNCHANGED <<filterVars, matcherVars, selectorVars, forwarderVars, keysVars>>

\* .then(filterLogGroups)
SelectsBy(i, names) ==
  IF names.ok
  THEN inv' = [inv EXCEPT ![i].pc = "filtered", ![i].selected = names.out]
  ELSE inv' = [inv EXCEPT ![i].pc = "rejected", ![i].error = "filterLogGroups"]

FilterNamesBy(i) ==
  /\ inv[i].pc = "fetched"
  /\ SelectsBy(i, filterLogGroups(inv[i].fetched.logGroupNames,
                                  inv[i].fetched.inclusionPatterns,
                                  inv[i].fetched.exclusionPatterns))
  /\ UNCHANGED <<pages, stored, subscriptionFilters>>

FilterNames ==
  /\ \E i \in Invocations : FilterNamesBy(i)
  /\ UNCHANGED <<filterVars, matcherVars, selectorVars, forwarderVars, keysVars>>

\* .then(map(subscribeLogGroup))
SubscribeAllBy(i) ==
  /\ inv[i].pc = "filtered"
  /\ inv' = [inv EXCEPT ![i].pc = "subscribing",
                        ![i].requests = mapSubscribeLogGroup(inv[i].selected)]
  /\ UNCHANGED <<pages, stored, subscriptionFilters>>

SubscribeAll ==
  /\ \E i \in Invocations : SubscribeAllBy(i)
  /\ UNCHANGED <<filterVars, matcherVars, selectorVars, forwarderVars, keysVars>>

\* the platform answers one putSubscriptionFilter request
RequestSettlesBy(i) ==
  /\ inv[i].pc = "subscribing"
  /\ \E k \in 1..Len(inv[i].requests) :
       /\ inv[i].requests[k].call = "inflight"
       /\ \E callOk \in BOOLEAN :
            /\ inv' = [inv EXCEPT
                 ![i].requests[k].call = IF callOk THEN "ok" ELSE "failed",
                 ![i].requests[k].promise = subscribeLogGroup(callOk)]
            /\ subscriptionFilters' =
                 IF callOk
                 THEN putSubscriptionFilter(subscriptionFilters,
                                            inv[i].requests[k].logGroupName)
                 ELSE subscriptionFilters
  /\ UNCHANGED <<pages, stored>>

RequestSettles ==
  /\ \E i \in Invocations : RequestSettlesBy(i)
  /\ UNCHANGED <<filterVars, matcherVars, selectorVars, forwarderVars, keysVars>>

\* .then(Promise.all.bind(Promise)).then(() => 'OK'), or
\* .catch(console.error) after a rejection
EndsBy(i) ==
  /\ \/ /\ inv[i].pc = "subscribing"
        /\ \A k \in 1..Len(inv[i].requests) :
             inv[i].requests[k].promise = "fulfilled"
        /\ inv' = [inv EXCEPT ![i].pc = "done", ![i].result = "OK"]
     \/ /\ inv[i].pc = "rejected"
        /\ inv' = [inv EXCEPT ![i].pc = "done", ![i].result = "undefined"]
  /\ UNCHANGED <<pages, stored, subscriptionFilters>>

Ends ==
  /\ \E i \in Invocations : EndsBy(i)
  /\ UNCHANGED <<filterVars, matcherVars, selectorVars, forwarderVars, keysVars>>

(***************************************************************************)
(* Specifications: one per worker.                                         *)
(***************************************************************************)
Init == FilterInit /\ MatcherIdle /\ SelectorIdle /\ ForwarderIdle /\ KeysIdle /\ OverlapIdle

Next ==
  \/ Invoke
  \/ InclusionPatternsArrive
  \/ ExclusionPatternsArrive
  \/ Process
  \/ ResolveOK
  \/ CatchError
  \/ PublishSettles

Spec == Init /\ [][Next]_vars

InitMatcher == FilterIdle /\ MatcherInit /\ SelectorIdle /\ ForwarderIdle /\ KeysIdle /\ OverlapIdle

MatcherNext == Compile \/ Apply

SpecMatcher == InitMatcher /\ [][MatcherNext]_vars

InitSelector == FilterIdle /\ MatcherIdle /\ SelectorInit /\ ForwarderIdle /\ KeysIdle /\ OverlapIdle

InitForwarder == FilterIdle /\ MatcherIdle /\ SelectorIdle /\ ForwarderInit /\ KeysIdle /\ OverlapIdle

ForwarderNext == Handle \/ ForwardSettles

InitKeys ==
  FilterIdle /\ MatcherIdle /\ SelectorIdle /\ ForwarderIdle /\ KeysInit
    /\ OverlapIdle

KeysNext ==
  \/ KeysInvoke
  \/ WhitelistArrives
  \/ KeysProcess
  \/ KeysPublishSettles
  \/ KeysResolve
  \/ KeysCatch

SpecKeys == InitKeys /\ [][KeysNext]_vars

Elsewhere ==
  FilterIdle /\ MatcherIdle /\ SelectorIdle /\ ForwarderIdle /\ KeysIdle

InitEnumeration == Elsewhere /\ EnumerationInit

EnumerationNext ==
  \/ GetLogGroups
  \/ DescribeLogGroups
  \/ ConcatPage
  \/ NamesArrive

SpecEnumeration == InitEnumeration /\ [][EnumerationNext]_vars

\* the same with a chain that keeps running: every call is answered and
\* every callback that can run does
FairEnumeration ==
  /\ InitEnumeration
  /\ [][EnumerationNext]_vars
  /\ WF_vars(GetLogGroups)
  /\ WF_vars(DescribeLogGroups)
  /\ WF_vars(ConcatPage)
  /\ WF_vars(NamesArrive)

InitOverlap == Elsewhere /\ OverlapInit

OverlapNext ==
  \/ GetLogGroups
  \/ DescribeLogGroups
  \/ ConcatPage
  \/ NamesArrive
  \/ PatternsArrive
  \/ FilterNames
  \/ SubscribeAll
  \/ RequestSettles
  \/ Ends

SpecOverlap == InitOverlap /\ [][OverlapNext]_vars

SpecForwarder == InitForwarder /\ [][ForwarderNext]_vars

SelectorNext ==
  \/ SelectorInvoke
  \/ LogGroupsAndPatternsArrive
  \/ FilterLogGroups
  \/ MapSubscribeLogGroup
  \/ SubscriptionSettles
  \/ SelectorResolve
  \/ SelectorCatch

SpecSelector == InitSelector /\ [][SelectorNext]_vars

\* the Selector invoked again and again, the account and the configuration
\* changing in between
ScheduleNext ==
  \/ SelectorInvoke
  \/ LogGroupsAndPatternsArrive
  \/ FilterLogGroups
  \/ MapSubscribeLogGroup
  \/ SubscriptionSettles
  \/ SelectorResolve
  \/ SelectorCatch
  \/ ScheduleTick
  \/ CreateLogGroup
  \/ DeleteLogGroup
  \/ EditInclusionPatterns
  \/ EditExclusionPatterns

SpecSchedule == InitSelector /\ [][ScheduleNext]_vars

\* the same with external calls that succeed, a rule that keeps firing and
\* a handler whose promise chain keeps running
CallsSucceed ==
  /\ fetched'.error = "none"
  /\ \A i \in 1..Len(requests') : requests'[i].call # "failed"

SuccessfulNext == ScheduleNext /\ CallsSucceed

FairSchedule ==
  /\ InitSelector
  /\ [][SuccessfulNext]_vars
  /\ WF_vars(SelectorInvoke /\ CallsSucceed)
  /\ WF_vars(LogGroupsAndPatternsArrive /\ CallsSucceed)
  /\ WF_vars(FilterLogGroups /\ CallsSucceed)
  /\ WF_vars(MapSubscribeLogGroup /\ CallsSucceed)
  /\ WF_vars(SubscriptionSettles /\ CallsSucceed)
  /\ WF_vars(SelectorResolve /\ CallsSucceed)
  /\ WF_vars(SelectorCatch /\ CallsSucceed)
  /\ WF_vars(ScheduleTick /\ CallsSucceed)

\* the Selector invoked twice in a row on the same account and configuration
RerunNext ==
  \/ SelectorInvoke
  \/ LogGroupsAndPatternsArrive
  \/ FilterLogGroups
  \/ MapSubscribeLogGroup
  \/ SubscriptionSettles
  \/ SelectorResolve
  \/ SelectorCatch
  \/ ScheduleTickUnchanged

SpecRerun == InitSelector /\ [][RerunNext]_vars


(***************************************************************************)
(* Properties of the Record Filter (specification Spec).                   *)
(***************************************************************************)
\* the single-event envelopes the batch decodes to
Decoded == chainParseRecord(event, 1)

\* the envelopes handed to publishLog, in order
PublishedLogs == [i \in 1..Len(publishes) |-> publishes[i].log]

\* pattern p, as configured, matches message m: its matcher can be built
\* and answers true; a matcher that cannot be built or cannot answer
\* matches nothing
MatcherHolds(f, m) ==
  IF f = ThrowingMatcher THEN FALSE ELSE ApplyMatcher(f, m) = "true"

PatternMatches(p, m) == MatcherHolds(toMatcherFunction(trim(p)), m)

MatchesSome(patterns, m) ==
  \E i \in 1..Len(patterns) : PatternMatches(patterns[i], m)

\* the envelope's message matches an inclusion pattern and no exclusion
\* pattern
ShouldPublish(log) ==
  /\ MatchesSome(filterInclusions, log.logEvents[1].message)
  /\ ~MatchesSome(filterExclusions, log.logEvents[1].message)

\* the invocation has finished on a batch that decodes with both pattern
\* lists read
FilterRan ==
  /\ pc = "done"
  /\ inclusionFunctions.read = "ok"
  /\ exclusionFunctions.read = "ok"
  /\ Decoded.ok

\* C1: for every batch and every pair of pattern lists, the handler
\* publishes a decoded envelope if and only if its message matches at least
\* one inclusion matcher and none of the exclusion matchers.
C1_PublishesIffMatches ==
  FilterRan => PublishedLogs = SelectSeq(Decoded.out, ShouldPublish)

\* The same equivalence for the invocations whose matchers were all built
\* and all answered, that is those that resolved with 'OK' (holds).
PublishesIffMatchesWhenOK ==
  result = "OK" => PublishedLogs = SelectSeq(Decoded.out, ShouldPublish)

\* Throwing or not, nothing is published that matches no inclusion pattern
\* or matches an exclusion pattern (holds).
PublishesOnlyMatching ==
  \A i \in 1..Len(publishes) : ShouldPublish(publishes[i].log)

\* the envelope's message matches an inclusion pattern
IsIncluded(log) == MatchesSome(filterInclusions, log.logEvents[1].message)

\* C11: with the default filter exclusion patterns, the list ['^$'], the
\* exclusion step drops no record: every message that matches an inclusion
\* matcher is published, whatever its text.
C11_DefaultExclusionDropsNothing ==
  result = "OK" /\ filterExclusions = <<PatCaretDollar>>
    => PublishedLogs = SelectSeq(Decoded.out, IsIncluded)

\* the LogMessage a well-formed record carries
WellFormed(record) == record.kinesis.data.base64.text.json
SourceMessage(record) == record.kinesis.data.base64.text.value

\* out is m split per log event: as many envelopes as m has events, the
\* i-th with the i-th event alone and every other field of m
SplitPerEvent(m, out) ==
  /\ Len(out) = Len(m.logEvents)
  /\ \A i \in 1..Len(out) :
       /\ out[i].logEvents = <<m.logEvents[i]>>
       /\ out[i].logGroup = m.logGroup
       /\ out[i].owner = m.owner
       /\ DOMAIN out[i] = DOMAIN m

DecodesPerEvent(record, decoded) ==
  decoded.ok /\ SplitPerEvent(SourceMessage(record), decoded.out)

\* C4: a well-formed record with N log events decodes to exactly N
\* envelopes, the i-th holding the i-th event alone and the other fields
\* of the source envelope (N = 0 gives none); so every envelope that
\* reaches matching or publishing has exactly one log event.
C4_DecodeOnePerEvent ==
  /\ \A r \in 1..Len(event) :
       WellFormed(event[r]) => DecodesPerEvent(event[r], parseRecord(event[r]))
  /\ \A i \in 1..Len(Decoded.out) : Len(Decoded.out[i].logEvents) = 1
  /\ \A i \in 1..Len(publishes) : Len(publishes[i].log.logEvents) = 1

\* a batch with a record of no events and a record of two, both of whose
\* events were published as two envelopes
C4_Witness ==
  /\ pc = "published"
  /\ \E r \in 1..Len(event) :
       WellFormed(event[r]) /\ Len(SourceMessage(event[r]).logEvents) = 0
  /\ \E r \in 1..Len(event) :
       WellFormed(event[r]) /\ Len(SourceMessage(event[r]).logEvents) = 2
  /\ Len(publishes) = 2
  /\ publishes[1].log.logEvents # publishes[2].log.logEvents

\* C5: if a publish request fails, the handler's promise rejects.
C5_PublishFailureRejects ==
  (\E i \in 1..Len(publishes) : publishes[i].request = "failed")
    => result = "rejected"

\* C6: the handler completes only after every publish request it issued
\* has settled.
C6_CompletesAfterPublishes ==
  result # "pending"
    => \A i \in 1..Len(publishes) : publishes[i].request # "inflight"

(***************************************************************************)
(* Properties of the Log-Group Selector (specification SpecSelector).      *)
(***************************************************************************)
\* filterLogGroups has returned in this invocation
FilterReturned ==
  spc \in {"filtered", "subscribing"} \/ (spc = "done" /\ sresult = "OK")

\* the name carries the tool's own token, in one of its two spellings
HasToken(name) ==
  \/ includes(<<"s", "n", "i", "f", "f", "l", "e", "s">>, name)
  \/ includes(<<"S", "n", "i", "f", "f", "l", "e", "s">>, name)

\* the name carries the token in some letter case
HasTokenInAnyCase(name) ==
  includes(<<"s", "n", "i", "f", "f", "l", "e", "s">>, map(toLowerCase, name))

MatchesSomeRegExp(patterns, name) ==
  \E i \in 1..Len(patterns) : RegExpTest(patterns[i], <<>>, name)

\* the name passes the three conditions of filterLogGroups
Survives(name) ==
  /\ ~HasToken(name)
  /\ MatchesSomeRegExp(fetched.inclusionPatterns, name)
  /\ ~MatchesSomeRegExp(fetched.exclusionPatterns, name)

\* C2: filterLogGroups returns exactly the names of its input list that do
\* not contain the token, match at least one inclusion regular expression
\* and match no exclusion regular expression, in input order with nothing
\* added.
C2_FilterLogGroupsExact ==
  FilterReturned => selected = SelectSeq(fetched.logGroupNames, Survives)

\* filterLogGroups returned and left out a name that an inclusion pattern
\* and an exclusion pattern both match, next to a name it kept
C2_Witness ==
  /\ spc = "filtered"
  /\ selected # <<>>
  /\ \E i \in 1..Len(fetched.logGroupNames) :
       /\ ~HasToken(fetched.logGroupNames[i])
       /\ MatchesSomeRegExp(fetched.inclusionPatterns, fetched.logGroupNames[i])
       /\ MatchesSomeRegExp(fetched.exclusionPatterns, fetched.logGroupNames[i])

\* the names the invocation selected, asked a subscription for, or
\* subscribed
Touched ==
  {selected[i] : i \in 1..Len(selected)}
    \cup {requests[i].logGroupName : i \in 1..Len(requests)}
    \cup subscribed

\* C3 as stated: in every invocation the Selector never selects, and never
\* issues a subscribe request for, a log group whose name contains
\* "sniffles" in any letter case.
C3_NeverSelectsTokenAnyCase ==
  \A name \in Touched : ~HasTokenInAnyCase(name)

\* C3 as the code has it: in every invocation the Selector never selects,
\* and never issues a subscribe request for, a log group whose name
\* contains "sniffles" or "Sniffles".
C3_NeverSelectsToken ==
  \A name \in Touched : ~HasToken(name)

\* requests were issued for the other names while a name with the token,
\* which an inclusion pattern matches and no exclusion pattern does, was
\* among the names fetched
C3_Witness ==
  /\ spc = "subscribing"
  /\ requests # <<>>
  /\ \E i \in 1..Len(fetched.logGroupNames) :
       /\ HasToken(fetched.logGroupNames[i])
       /\ MatchesSomeRegExp(fetched.inclusionPatterns, fetched.logGroupNames[i])
       /\ ~MatchesSomeRegExp(fetched.exclusionPatterns, fetched.logGroupNames[i])

\* C7: a failed subscribe request does not prevent the others: exactly one
\* request is issued for every name that survived filtering, whatever
\* subset of the requests fails, and the handler still resolves with 'OK'.
C7_SubscribeFailuresIsolated ==
  /\ spc = "subscribing" \/ requests # <<>>
       => /\ Len(requests) = Len(selected)
          /\ \A i \in 1..Len(requests) : requests[i].logGroupName = selected[i]
  /\ requests # <<>> => spc \in {"subscribing", "done"}
  /\ requests # <<>> /\ spc = "done" => sresult = "OK"
  /\ \A i \in 1..Len(requests) :
       requests[i].call = "ok" => requests[i].logGroupName \in subscribed

\* the handler resolved with 'OK' after one of two requests failed and the
\* other put its filter
C7_Witness ==
  /\ spc = "done"
  /\ sresult = "OK"
  /\ Len(requests) = 2
  /\ \E i, j \in 1..Len(requests) :
       /\ requests[i].call = "failed"
       /\ requests[j].call = "ok"
       /\ requests[j].logGroupName \in subscribed

\* C16: if an inclusion or exclusion pattern list cannot be read from the
\* configuration store, the invocation is fatal: the Selector handler
\* rejects instead of resolving, and issues no subscribe request.
C16_UnreadablePatternsReject ==
  fetched.error \in {"inclusions", "exclusions"}
    => /\ requests = <<>>
       /\ sresult \in {"pending", "rejected"}
       /\ spc = "done" => sresult = "rejected"

\* C16, for the Filter handler (specification Spec): it rejects instead of
\* resolving, and issues no publish request.
C16_FilterUnreadablePatternsReject ==
  "failed" \in {inclusionFunctions.read, exclusionFunctions.read}
    => /\ publishes = <<>>
       /\ result \in {"pending", "rejected"}
       /\ pc = "done" => result = "rejected"

\* The part of C16 that holds: an invocation that cannot read a pattern
\* list issues no subscribe request (holds on SpecSelector).
UnreadablePatternsNoRequest ==
  fetched.error \in {"inclusions", "exclusions"} => requests = <<>>

\* The same for the Filter: no publish request (holds on Spec).
FilterUnreadablePatternsNoPublish ==
  "failed" \in {inclusionFunctions.read, exclusionFunctions.read}
    => publishes = <<>>

Asked == mpc \in {"thrown", "applied"}

\* body and flags of a /body/flags pattern
BodyOf(str) == SubSeq(str, 2, NextSlash(str, 2) - 1)
FlagsOf(str) == SubSeq(str, NextSlash(str, 2) + 1, Len(str))

\* the regular expression matches somewhere in the text
MatchesAnywhere(re, flags, s) ==
  \E j \in 1..(Len(s) + 1) : MatchFrom(re, 1, s, j, IsFlag(flags, "i"))

\* C8: for every pattern of the form /body/flags, an invalid body or
\* repeated flags included, the compiled matcher never throws, and returns
\* true iff the message matches the regular expression, searched anywhere
\* in the text.
C8_RegExpMatcherTotal ==
  IsRegExpShape(pattern) /\ Asked
    => /\ verdict # "throw"
       /\ mpc = "applied"
            => (verdict = "true"
                  <=> MatchesAnywhere(BodyOf(pattern), FlagsOf(pattern), message))

\* C9: for every pattern that starts with "{" and ends with "}", the
\* compiled matcher never throws; it returns false when the message has no
\* JSON object block, when the block is no valid JSON, and when the path
\* query is malformed, and true only when the query yields a result on the
\* parsed block.
C9_JspathMatcherTotal ==
  IsJspathShape(pattern) /\ Asked
    => /\ verdict # "throw"
       /\ ~JspathParse(<<".">> \o pattern).ok => verdict = "false"
       /\ groupMatch(message) = <<>> => verdict = "false"
       /\ verdict = "true" => /\ groupMatch(message) # <<>>
                              /\ JSONparse(groupMatch(message)[1]).ok
                              /\ JspathParse(<<".">> \o pattern).ok

\* the text p occurs in the text s
IsSubstring(p, s) ==
  \E i \in 0..Len(s) :
    /\ i + Len(p) <= Len(s)
    /\ \A k \in 1..Len(p) : s[i + k] = p[k]

C10_WitnessTrue ==
  /\ mpc = "applied"
  /\ pattern = PatCaretDollar
  /\ message = MsgCaretDollar
  /\ verdict = "true"

(***************************************************************************)
(* Properties of the Selector under its schedule (specifications           *)
(* SpecSchedule and SpecRerun).                                            *)
(***************************************************************************)
\* C12: across any sequence of Selector invocations with arbitrarily
\* changing inclusion and exclusion lists, the set of subscribed log groups
\* never shrinks: a group subscribed by an earlier invocation stays
\* subscribed after the patterns stop matching it.
C12_SubscriptionsNeverShrink == [][subscribed \subseteq subscribed']_vars

\* an invocation ended with 'OK' on an account with a log group that was
\* subscribed by an earlier invocation, that the patterns no longer select
\* and that is subscribed still
C12_Witness ==
  /\ spc = "done"
  /\ sresult = "OK"
  /\ \E i \in 1..Len(fetched.logGroupNames) :
       /\ fetched.logGroupNames[i] \in subscribed
       /\ ~HasToken(fetched.logGroupNames[i])
       /\ ~Survives(fetched.logGroupNames[i])
       /\ fetched.logGroupNames[i] \notin Requested

\* the second of two invocations in a row has ended
SecondRunEnded == previous.run >= 1 /\ spc = "done"

PatternMatchesName(p, name) ==
  IF SyntaxOk(trim(p), 1) THEN RegExpTest(trim(p), <<>>, name) ELSE FALSE

\* the log group exists in the account, its name has not the token, matches
\* an inclusion pattern of the configuration and matches no exclusion
\* pattern of it
Eligible(name) ==
  /\ \E i \in 1..Len(logGroups) : logGroups[i] = name
  /\ ~HasTokenInAnyCase(name)
  /\ \E i \in 1..Len(logGroupInclusions) :
       PatternMatchesName(logGroupInclusions[i], name)
  /\ \A i \in 1..Len(logGroupExclusions) :
       ~PatternMatchesName(logGroupExclusions[i], name)

\* every pattern of the configuration is a regular expression
PatternsCompile ==
  /\ \A i \in 1..Len(logGroupInclusions) : SyntaxOk(trim(logGroupInclusions[i]), 1)
  /\ \A i \in 1..Len(logGroupExclusions) : SyntaxOk(trim(logGroupExclusions[i]), 1)

\* a subscribe request of the current invocation has the log group as its
\* target
Targeted(name) ==
  \E i \in 1..Len(requests) : requests[i].input.logGroupName = name

\* C18: under fair schedule ticks and successful external calls, every log
\* group that exists from some point on, whose name does not contain the
\* token, that matches an inclusion pattern and matches no exclusion
\* pattern, is eventually the target of a subscribe request.
C18_EligibleEventuallyTargeted ==
  \A name \in LogGroupNames : <>[]Eligible(name) => []<>Targeted(name)

\* The same for a configuration all of whose patterns are regular
\* expressions (holds).
EligibleEventuallyTargetedWhenPatternsCompile ==
  \A name \in LogGroupNames :
    <>[](Eligible(name) /\ PatternsCompile) => []<>Targeted(name)

(***************************************************************************)
(* Claims about the OpsGenie Forwarder.                                    *)
(***************************************************************************)
\* the envelope of the invocation and the text of its first log event
Envelope == snsEvent[1].Sns.Message.value
LogLine == Envelope.logEvents[1].message
LogLineIsJSON == JSONparse(LogLine).ok

\* the handler has passed the statements before its await
Handled == fpc \in {"publishing", "done"}

\* the text is the first n characters of the whole text
IsFirstCharacters(text, n, whole) ==
  /\ Len(text) = (IF Len(whole) < n THEN Len(whole) ELSE n)
  /\ \A i \in 1..Len(text) : text[i] = whole[i]

\* the inner message of a log line, when the line is a JSON object whose
\* "message" is a string; the empty text when the line is not JSON
HasInnerMessage(line, inner) ==
  \/ /\ ~JSONparse(line).ok
     /\ inner = <<>>
  \/ /\ JSONparse(line).ok
     /\ JSONparse(line).val.t = "obj"
     /\ \E i \in 1..Len(JSONparse(line).val.members) :
          /\ JSONparse(line).val.members[i].k = <<"m", "e", "s", "s", "a", "g", "e">>
          /\ JSONparse(line).val.members[i].val.t = "str"
          /\ JSONparse(line).val.members[i].val.s = inner

InnerMessages == {<<>>} \cup {v.s : v \in {m.val : m \in
  UNION {{JSONparse(l).val.members[i] : i \in 1..Len(JSONparse(l).val.members)} :
         l \in {x \in LogLines : JSONparse(x).ok /\ JSONparse(x).val.t = "obj"}}}}

\* the one publish of the invocation has the Subject, the body and the
\* attribute of the contract
PublishedAsContracted ==
  /\ Len(fpublishes) = 1
  /\ Len(fpublishes[1].input.Subject) <= SubjectLength
  /\ \A inner \in InnerMessages :
       HasInnerMessage(LogLine, inner) =>
         IsFirstCharacters(fpublishes[1].input.Subject, SubjectLength,
           Envelope.owner \o <<" ">> \o Envelope.logGroup \o <<" ">> \o inner)
  /\ fpublishes[1].input.Message.json
  /\ fpublishes[1].input.Message.value = Envelope
  /\ fpublishes[1].input.MessageAttributes.eventType.StringValue = "create"

\* C14: for every envelope it receives, the Forwarder publishes one message
\* whose Subject is the first 100 characters of "<owner> <logGroup> <inner
\* message>", never longer than 100 characters, whose body is the JSON of
\* the whole envelope and whose eventType attribute is 'create'.
C14_PublishesOneMessagePerEnvelope == Handled => PublishedAsContracted

\* The same for the envelopes whose log line is JSON other than null: what
\* the handler does publish has the Subject, body and attribute of C14.
PublishedAsContractedWhenLineIsJSON ==
  Handled /\ LogLineIsJSON /\ JSONparse(LogLine).val.t # "null"
    => PublishedAsContracted

\* a Subject cut inside the inner message has been published
SubjectCutInsideMessage ==
  /\ Handled
  /\ Len(fpublishes) = 1
  /\ Len(fpublishes[1].input.Subject) = SubjectLength
  /\ fpublishes[1].input.Subject[SubjectLength - 1] = "o"

\* C15: when the message text of the log event is not valid JSON, the
\* Forwarder does not fail: it takes the empty string as the inner message
\* and still publishes exactly one notification for the envelope.
C15_NonJSONMessageStillPublished ==
  Handled /\ ~LogLineIsJSON =>
    /\ Len(fpublishes) = 1
    /\ fpublishes[1].input.Subject =
         take(SubjectLength,
              Envelope.owner \o <<" ">> \o Envelope.logGroup \o <<" ">>)
    /\ (fresult = "rejected" => fpublishes[1].call = "failed")

\* What the handler does with such an envelope: JSON.parse throws before
\* the publish, nothing is published and the invocation fails.
NonJSONMessageRejects ==
  Handled /\ ~LogLineIsJSON => fpublishes = <<>> /\ fresult = "rejected"

(***************************************************************************)
(* Claims about the shapes toMatcherFunction tells apart and about the     *)
(* block the JSON-path matcher reads.                                      *)
(***************************************************************************)
\* toMatcherFunction(pattern) has been called
Classified == mpc \in {"compiled", "thrown", "applied"}

\* str fully matches ^/[^/]+/[flags]*$
FullyMatchesLiteral(str, flagLetters) ==
  \E k \in 3..Len(str) :
    /\ str[1] = "/"
    /\ str[k] = "/"
    /\ \A t \in 2..(k - 1) : str[t] # "/"
    /\ \A t \in (k + 1)..Len(str) : str[t] \in flagLetters

StartsAndEndsWithBraces(str) ==
  Len(str) >= 1 /\ str[1] = "{" /\ str[Len(str)] = "}"

\* the compiler the pattern was handed to: the regular-expression compiler
\* (whether new RegExp accepted body and flags or threw), the JSON-path
\* compiler or the substring compiler
CompiledAsRegExp == matcher.kind \in {"regexp", "throw"}
CompiledAsJspath == matcher.kind = "jspath"
CompiledAsSubstring == matcher.kind = "string"

ClassifiedInOrder(flagLetters) ==
  Classified =>
    /\ CompiledAsRegExp <=> FullyMatchesLiteral(pattern, flagLetters)
    /\ CompiledAsJspath <=>
         /\ ~FullyMatchesLiteral(pattern, flagLetters)
         /\ StartsAndEndsWithBraces(pattern)
    /\ CompiledAsSubstring <=>
         /\ ~FullyMatchesLiteral(pattern, flagLetters)
         /\ ~StartsAndEndsWithBraces(pattern)
    /\ CompiledAsRegExp \/ CompiledAsJspath \/ CompiledAsSubstring

\* C19 as stated: a pattern is compiled as a regular-expression matcher iff
\* it fully matches ^/[^/]+/[a-z]*$, otherwise as a JSON-path matcher iff
\* it starts with '{' and ends with '}', otherwise as a substring matcher;
\* every string falls in exactly one class.
C19_ClassifiesWithLowerCaseFlags == ClassifiedInOrder(LowerLetters)

\* C19, with the flags the code tests for: a pattern is compiled as a
\* regular-expression matcher iff it fully matches ^/[^/]+/[gimsuy]*$,
\* otherwise as a JSON-path matcher iff it starts with '{' and ends with
\* '}', otherwise as a substring matcher; every string falls in exactly one
\* class.
C19_ClassifiesInOrder ==
  ClassifiedInOrder({"g", "i", "m", "s", "u", "y"})

\* /a/x, whose x is a lower-case letter and no flag, became a substring
\* matcher and was applied
C19_Witness ==
  /\ mpc = "applied"
  /\ pattern = PatOtherFlag
  /\ CompiledAsSubstring

\* the leftmost "{" that has a "}" two or more characters later
BlockStarts(s) ==
  {i \in 1..Len(s) : s[i] = "{" /\ \E j \in (i + 2)..Len(s) : s[j] = "}"}
BlockStart(s) ==
  CHOOSE i \in BlockStarts(s) : \A other \in BlockStarts(s) : i <= other

\* the "}" that end a block begun at BlockStart
BlockEnds(s) == {j \in (BlockStart(s) + 2)..Len(s) : s[j] = "}"}

\* from the first "{" to the nearest following "}"
NearestBlock(s) ==
  IF BlockStarts(s) = {} THEN <<>>
  ELSE <<SubSeq(s, BlockStart(s),
                CHOOSE j \in BlockEnds(s) : \A other \in BlockEnds(s) : j <= other)>>

\* from the first "{" to the last "}" of the message
WidestBlock(s) ==
  IF BlockStarts(s) = {} THEN <<>>
  ELSE <<SubSeq(s, BlockStart(s),
                CHOOSE j \in BlockEnds(s) : \A other \in BlockEnds(s) : j >= other)>>

\* the message up to and including its last "}"
RECURSIVE UpToLastBrace(_)
UpToLastBrace(s) ==
  IF s = <<>> \/ s[Len(s)] = "}" THEN s
  ELSE UpToLastBrace(SubSeq(s, 1, Len(s) - 1))

JspathApplied == mpc = "applied" /\ matcher.kind = "jspath"

\* C20 as stated: the JSON-path matcher evaluates its query on the first
\* {...} block of the message, from the first '{' to the nearest following
\* '}', spanning newlines; text after that block, later '}' and further
\* JSON objects included, does not change the result.
C20_EvaluatesNearestBlock ==
  JspathApplied =>
    /\ verdict = blockStage(pattern, NearestBlock(message))
    /\ \A other \in Messages :
         NearestBlock(other) = NearestBlock(message) =>
           ApplyMatcher(matcher, other) = verdict

\* C20, with the block the code takes: the JSON-path matcher evaluates its
\* query on the text from the first '{' of the message to its last '}',
\* spanning newlines; text after the last '}' does not change the result,
\* while a later '}' or a further JSON object is part of the block.
C20_EvaluatesWidestBlock ==
  JspathApplied =>
    /\ verdict = blockStage(pattern, WidestBlock(message))
    /\ \A other \in Messages :
         UpToLastBrace(other) = UpToLastBrace(message) =>
           ApplyMatcher(matcher, other) = verdict

\* { .b === 7 } was applied to {"b":7} {"b":8}: the block runs to the last
\* "}", is no JSON, and the matcher answers false
C20_Witness ==
  /\ JspathApplied
  /\ pattern = PatB
  /\ message = MsgTwoBlocks
  /\ verdict = "false"

\* { .b === 7 } answers true on a block that holds a line feed
C20_WitnessSpansNewline ==
  /\ JspathApplied
  /\ pattern = PatB
  /\ message = MsgTwoLines
  /\ verdict = "true"

(***************************************************************************)
(* Further properties of the Record Filter (specification Spec).           *)
(***************************************************************************)
\* the envelope of the e-th log event of a LogMessage
EnvelopeOf(m, e) == [m EXCEPT !.logEvents = <<m.logEvents[e]>>]

\* the envelopes of the records r.. of the batch, from event e of record r
\* on: records in batch order, events in logEvents order
RECURSIVE FlatFrom(_, _)
FlatFrom(r, e) ==
  IF r > Len(event) THEN <<>>
  ELSE IF ~WellFormed(event[r]) \/ e > Len(SourceMessage(event[r]).logEvents)
  THEN FlatFrom(r + 1, 1)
  ELSE <<EnvelopeOf(SourceMessage(event[r]), e)>> \o FlatFrom(r, e + 1)

\* xs[i..] can be had from ys[j..] by leaving elements out
RECURSIVE IsSubsequenceFrom(_, _, _, _)
IsSubsequenceFrom(xs, i, ys, j) ==
  IF i > Len(xs) THEN TRUE
  ELSE IF j > Len(ys) THEN FALSE
  ELSE IF xs[i] = ys[j] THEN IsSubsequenceFrom(xs, i + 1, ys, j + 1)
  ELSE IsSubsequenceFrom(xs, i, ys, j + 1)

\* C23: the Filter issues its publish calls in the order of the flat
\* decoded sequence: records in the order of the batch and, within a record,
\* events in logEvents order; what is published is single-event envelopes,
\* never nested and never out of that order.
C23_PublishesInDecodedOrder ==
  /\ IsSubsequenceFrom(PublishedLogs, 1, FlatFrom(1, 1), 1)
  /\ \A i \in 1..Len(publishes) : Len(publishes[i].log.logEvents) = 1

\* envelopes of two records were published, two of them of one record
C23_Witness ==
  /\ pc = "done"
  /\ Len(publishes) >= 3
  /\ publishes[1].log.logGroup # publishes[Len(publishes)].log.logGroup
  /\ \E i \in 1..(Len(publishes) - 1) :
       /\ publishes[i].log.logGroup = publishes[i + 1].log.logGroup
       /\ publishes[i].log.logEvents # publishes[i + 1].log.logEvents

\* the record with the same payload, gzip-compressed before the base64
Compressed(record) ==
  [record EXCEPT !.kinesis.data.base64.gzip = TRUE]

IsCompressed(record) == record.kinesis.data.base64.gzip

CompressedBatch == [r \in 1..Len(event) |-> Compressed(event[r])]

\* the handler has run its pipe on the batch
Processed == pc \in {"published", "done", "thrown"} /\ inclusionFunctions.state = "fulfilled"
               /\ exclusionFunctions.state = "fulfilled"

\* C24: gzip decompression in the decoder is opportunistic: a payload that
\* is not valid gzip goes unchanged to JSON parsing instead of failing, so
\* a well-formed uncompressed record decodes to the same envelopes as the
\* gzip-compressed form of the same payload, and a batch is published as
\* the batch of the compressed forms would be.
C24_UncompressedDecodesAsCompressed ==
  /\ \A r \in 1..Len(event) :
       /\ parseRecord(event[r]) = parseRecord(Compressed(event[r]))
       /\ WellFormed(event[r]) =>
            DecodesPerEvent(event[r], parseRecord(event[r]))
  /\ Processed /\ pc # "thrown" =>
       PublishedLogs = selectLogs(inclusionFunctions.fns,
                                  exclusionFunctions.fns, CompressedBatch).out

\* an envelope of an uncompressed record was published
C24_Witness ==
  /\ pc = "done"
  /\ \E r \in 1..Len(event) :
       /\ ~IsCompressed(event[r])
       /\ WellFormed(event[r])
       /\ \E i \in 1..Len(publishes) :
            publishes[i].log.logGroup = SourceMessage(event[r]).logGroup

\* the read of a pattern list is requested when it goes from "none" to
\* "pending"; it is answered once, with "ok" or "failed"
RequestedOnce(list) == list.read \in {"pending", "ok", "failed"}

RequestsAtMostOnce(before, after) ==
  /\ before.read # "pending" /\ after.read = "pending" => before.read = "none"
  /\ before.read \in {"ok", "failed"} => after.read = before.read

\* C25: each Filter invocation requests the inclusion pattern list exactly
\* once and the exclusion pattern list exactly once, whatever the number of
\* records and events of the batch, and both lists have been obtained
\* before the first publish of the invocation is issued.
C25_PatternsReadOnceBeforePublish ==
  /\ [](pc # "start" =>
          RequestedOnce(inclusionFunctions) /\ RequestedOnce(exclusionFunctions))
  /\ [][/\ RequestsAtMostOnce(inclusionFunctions, inclusionFunctions')
        /\ RequestsAtMostOnce(exclusionFunctions, exclusionFunctions')]_vars
  /\ [](publishes # <<>> =>
          inclusionFunctions.read = "ok" /\ exclusionFunctions.read = "ok")
  /\ [][publishes # publishes' /\ publishes = <<>> =>
          inclusionFunctions.read = "ok" /\ exclusionFunctions.read = "ok"]_vars

\* a batch of two records was published after both lists had arrived
C25_Witness ==
  /\ pc = "done"
  /\ Len(event) = 2
  /\ Len(publishes) >= 2
  /\ inclusionFunctions.read = "ok"
  /\ exclusionFunctions.read = "ok"

(***************************************************************************)
(* Further properties of the Log-Group Selector (specification             *)
(* SpecSelector).                                                          *)
(***************************************************************************)
\* the pattern is a regular expression and matches the name; a pattern
\* that is no regular expression matches nothing
MatchesIfRegExp(p, name) ==
  IF SyntaxOk(p, 1) THEN RegExpTest(p, <<>>, name) ELSE FALSE

\* the name passes the three conditions, patterns that are no regular
\* expression left aside
SurvivesValidPatterns(name) ==
  /\ ~HasToken(name)
  /\ \E i \in 1..Len(fetched.inclusionPatterns) :
       MatchesIfRegExp(fetched.inclusionPatterns[i], name)
  /\ \A i \in 1..Len(fetched.exclusionPatterns) :
       ~MatchesIfRegExp(fetched.exclusionPatterns[i], name)

SomePatternInvalid ==
  \/ \E i \in 1..Len(fetched.inclusionPatterns) :
       ~SyntaxOk(fetched.inclusionPatterns[i], 1)
  \/ \E i \in 1..Len(fetched.exclusionPatterns) :
       ~SyntaxOk(fetched.exclusionPatterns[i], 1)

\* the invocation has ended after its enumeration and its two reads had
\* succeeded
SelectorEndedAfterReads == spc = "done" /\ fetched.error = "none"

\* C26: Selector pattern compilation is total: a pattern that is not a
\* valid regular expression degrades to a matcher that never matches and
\* does not throw, so the remaining patterns are still applied and the log
\* groups they select are still subscribed in that invocation.
C26_InvalidPatternNeverMatches ==
  SelectorEndedAfterReads =>
    /\ sresult = "OK"
    /\ [i \in 1..Len(requests) |-> requests[i].input.logGroupName]
         = SelectSeq(fetched.logGroupNames, SurvivesValidPatterns)

\* What the handler does with such a list: new RegExp throws while the
\* pipe of filterLogGroups is built, nothing is selected or requested, and
\* the catch ends the invocation without 'OK' (holds).
InvalidPatternAbortsSelection ==
  SelectorEndedAfterReads /\ SomePatternInvalid =>
    selected = <<>> /\ requests = <<>> /\ sresult = "undefined"

\* With lists of regular expressions only, the invocation ends as C26 says
\* (holds).
ValidPatternsSelect ==
  SelectorEndedAfterReads /\ ~SomePatternInvalid =>
    /\ sresult = "OK"
    /\ [i \in 1..Len(requests) |-> requests[i].input.logGroupName]
         = SelectSeq(fetched.logGroupNames, SurvivesValidPatterns)

(***************************************************************************)
(* Further claims about the OpsGenie Forwarder (specification              *)
(* SpecForwarder).                                                         *)
(***************************************************************************)
\* C27: each Forwarder invocation consumes one notification and issues
\* exactly one publish; it returns 'OK' only after that publish has
\* succeeded, and if the publish fails the handler rejects instead of
\* returning 'OK'.
C27_OnePublishPerInvocation ==
  /\ fpc = "done" => Len(fpublishes) = 1
  /\ fresult = "OK" => Len(fpublishes) = 1 /\ fpublishes[1].call = "ok"
  /\ \A i \in 1..Len(fpublishes) :
       fpublishes[i].call = "failed" => fresult = "rejected"

\* Never more than one publish; 'OK' only after the publish has succeeded;
\* a failed publish rejects the handler (holds).
AtMostOnePublishThenOK ==
  /\ Len(fpublishes) <= 1
  /\ fresult = "OK" => Len(fpublishes) = 1 /\ fpublishes[1].call = "ok"
  /\ \A i \in 1..Len(fpublishes) :
       fpublishes[i].call = "failed" => fresult = "rejected"
  /\ fpc = "done" /\ LogLineIsJSON /\ JSONparse(LogLine).val.t # "null"
       => Len(fpublishes) = 1

(***************************************************************************)
(* Decoding and publishing of a batch (specification Spec).                *)
(***************************************************************************)
SomeRecordMalformed == \E r \in 1..Len(event) : ~WellFormed(event[r])

\* C29: Filter processing of a batch is all-or-nothing with respect to
\* decoding: every record of the batch is decoded before any publish is
\* issued, so if any record of the batch is malformed (its payload is not
\* valid JSON) no publish is issued for any record of that batch, the
\* well-formed records that precede the malformed one included.
C29_MalformedRecordNoPublish ==
  /\ SomeRecordMalformed => publishes = <<>>
  /\ publishes # <<>> =>
       \A r \in 1..Len(event) : DecodesPerEvent(event[r], parseRecord(event[r]))

\* the invocation ended without a publish on a batch whose first record
\* holds a message that both lists would let through and whose second
\* record is malformed
C29_Witness ==
  /\ pc = "done"
  /\ inclusionFunctions.read = "ok"
  /\ exclusionFunctions.read = "ok"
  /\ Len(event) = 2
  /\ WellFormed(event[1])
  /\ \E e \in 1..Len(SourceMessage(event[1]).logEvents) :
       ShouldPublish(EnvelopeOf(SourceMessage(event[1]), e))
  /\ ~WellFormed(event[2])
  /\ publishes = <<>>

(***************************************************************************)
(* Empty pattern lists (specifications SpecSelector and Spec).             *)
(***************************************************************************)
\* the name has not the token and matches an inclusion pattern
SelectedByInclusion(name) ==
  ~HasToken(name) /\ MatchesSomeRegExp(fetched.inclusionPatterns, name)

\* C30: an empty pattern list matches nothing: with an empty inclusion list
\* the Selector selects no log group and the Filter publishes no envelope,
\* whatever the input; with an empty exclusion list the exclusion step
\* drops nothing, so the result is exactly what the inclusion step
\* selected.
C30_EmptyListMatchesNothing ==
  /\ logGroupInclusions = <<>> => selected = <<>> /\ requests = <<>>
  /\ FilterReturned /\ fetched.exclusionPatterns = <<>> =>
       selected = SelectSeq(fetched.logGroupNames, SelectedByInclusion)
  /\ filterInclusions = <<>> => publishes = <<>>
  /\ Processed /\ filterExclusions = <<>> =>
       PublishedLogs = filterStage(inclusionFunctions.fns, Decoded).out
  /\ result = "OK" /\ filterExclusions = <<>> =>
       PublishedLogs = SelectSeq(Decoded.out, IsIncluded)

\* a Selector invocation over an account with a log group without the token
\* ended with 'OK' and no request, the inclusion list being empty
C30_Witness ==
  /\ spc = "done"
  /\ sresult = "OK"
  /\ logGroupInclusions = <<>>
  /\ \E i \in 1..Len(fetched.logGroupNames) : ~HasToken(fetched.logGroupNames[i])
  /\ requests = <<>>

\* a Selector invocation with an empty exclusion list selected a name
C30_WitnessNoExclusions ==
  /\ spc = "done"
  /\ sresult = "OK"
  /\ logGroupExclusions = <<>>
  /\ requests # <<>>

\* a Filter invocation on a batch with events ended with 'OK' and no
\* publish, the inclusion list being empty
C30_WitnessFilter ==
  /\ result = "OK"
  /\ filterInclusions = <<>>
  /\ Decoded.ok
  /\ Decoded.out # <<>>
  /\ publishes = <<>>

\* a Filter invocation with an empty exclusion list published an envelope
C30_WitnessFilterNoExclusions ==
  /\ result = "OK"
  /\ filterExclusions = <<>>
  /\ publishes # <<>>

(***************************************************************************)
(* The logLink enrichment of the richer Record Filter (specification       *)
(* SpecKeys).                                                              *)
(***************************************************************************)
\* what the handler's pipe selects without map(addLogLink)
WithoutEnrichment == filterStage(whitelistFns.fns, chainParseRecord(keysEvent, 1))

\* the handler's pipe has run
KeysProcessed == whitelistFns.state = "fulfilled" /\ kpc \notin {"start", "patterns"}

\* linked is plain with a logLink and nothing else changed
OnlyLogLinkAdded(plain, linked) ==
  /\ DOMAIN linked = DOMAIN plain \cup {"logLink"}
  /\ \A f \in DOMAIN plain : f # "logLink" => linked[f] = plain[f]
  /\ linked.logEvents = plain.logEvents
  /\ Len(linked.logEvents) = 1

HasTab(text) == \E i \in 1..Len(text) : text[i] = "\t"

\* C28: the logLink enrichment of the richer Filter changes nothing but the
\* logLink field: every other field of each envelope, its single log event
\* included, is unchanged, and the number and the order of the published
\* envelopes are those without enrichment, also for a message that holds
\* no tab character (enrichment never throws).
C28_EnrichmentAddsLogLinkOnly ==
  /\ kpublishes # <<>> => KeysProcessed /\ WithoutEnrichment.ok
  /\ KeysProcessed /\ WithoutEnrichment.ok =>
       /\ Len(kpublishes) = Len(WithoutEnrichment.out)
       /\ \A i \in 1..Len(kpublishes) :
            /\ OnlyLogLinkAdded(WithoutEnrichment.out[i], kpublishes[i].log)
            /\ kpublishes[i].input.Message.value = kpublishes[i].log
       /\ kpublishes = <<>> /\ kpc = "done" => kresult = "OK"

\* envelopes with and without a tab in the message were published with a
\* link, in one invocation
C28_Witness ==
  /\ kpc = "done"
  /\ kresult = "OK"
  /\ \E i \in 1..Len(kpublishes) :
       /\ ~HasTab(kpublishes[i].log.logEvents[1].message)
       /\ "logLink" \in DOMAIN kpublishes[i].log
  /\ \E i \in 1..Len(kpublishes) :
       HasTab(kpublishes[i].log.logEvents[1].message)

(***************************************************************************)
(* The paginated enumeration (specifications SpecEnumeration and           *)
(* FairEnumeration).                                                       *)
(***************************************************************************)
\* the names of the pages k.., page k first
RECURSIVE AllNamesFrom(_)
AllNamesFrom(k) ==
  IF k > Len(pages) THEN <<>>
  ELSE (IF pages[k] = <<>> THEN <<>> ELSE pages[k][1]) \o AllNamesFrom(k + 1)

Enumerated(i) == inv[i].pc = "enumerated"
EnumerationFailed(i) == inv[i].pc = "rejected"

\* one request per page: the first without a token, then the token of
\* each page but the last
AskedEachPageOnce(i) ==
  /\ Len(inv[i].asked) = Len(pages)
  /\ inv[i].asked[1] = 0
  /\ \A k \in 2..Len(pages) : inv[i].asked[k] = k

\* C21: log-group enumeration follows continuation tokens until a page
\* arrives without a token, then stops: for every finite sequence of pages
\* it terminates and returns the names of all pages concatenated in
\* enumeration order (page 1 first), with no name lost or duplicated.
C21_EnumerationComplete ==
  /\ <>(Enumerated("first") \/ EnumerationFailed("first"))
  /\ [](EnumerationFailed("first") => inv["first"].error = "describeLogGroups")
  /\ [](Enumerated("first") =>
          /\ inv["first"].resolved = AllNamesFrom(1)
          /\ AskedEachPageOnce("first"))
  /\ [](Len(inv["first"].asked) <= Len(pages))

\* three pages, not all alike, have been enumerated
C21_Witness ==
  /\ Enumerated("first")
  /\ Len(pages) = 3
  /\ pages[1] # pages[2]
  /\ pages[2] # <<>>
  /\ Len(inv["first"].resolved) >= 3

\* the loop of lambdas/subscriber/handler.ts returns the same list (holds)
LoopEnumerationComplete ==
  pages # <<>> => getLogGroupsLoop(pages, 0, <<>>) = AllNamesFrom(1)

(***************************************************************************)
(* Two overlapping invocations of the Selector (specification SpecOverlap).*)
(***************************************************************************)
\* what one invocation alone selects from the account's log groups and the
\* stored pattern lists
SelectedAlone ==
  filterLogGroups(AllNamesFrom(1),
                  [k \in 1..Len(stored.inclusions) |-> trim(stored.inclusions[k])],
                  [k \in 1..Len(stored.exclusions) |-> trim(stored.exclusions[k])])

\* the subscriptions one invocation alone leaves when its calls succeed
SubscribedAlone ==
  IF SelectedAlone.ok
  THEN {SelectedAlone.out[k] : k \in 1..Len(SelectedAlone.out)}
  ELSE {}

\* the names one of the invocations has subscribed with success
SubscribedBy(i) ==
  {inv[i].requests[k].logGroupName :
     k \in {n \in 1..Len(inv[i].requests) : inv[i].requests[n].call = "ok"}}

BothEnded == \A i \in Invocations : inv[i].pc = "done"

\* an invocation that has come to a stage holds there what it would hold
\* had it run alone
RunsAsAlone(i) ==
  /\ inv[i].pc \in {"enumerated", "fetched", "filtered", "subscribing"} =>
       inv[i].resolved = AllNamesFrom(1)
  /\ inv[i].pc \in {"filtered", "subscribing"} =>
       SelectedAlone.ok /\ inv[i].selected = SelectedAlone.out
  /\ inv[i].pc = "subscribing" =>
       [k \in 1..Len(inv[i].requests) |-> inv[i].requests[k].logGroupName]
         = SelectedAlone.out
  /\ inv[i].result = "OK" => SelectedAlone.ok
  /\ inv[i].error = "filterLogGroups" => ~SelectedAlone.ok

\* C22: two Selector invocations that overlap in time leave the
\* subscription set in the same final state as a single invocation:
\* subscribing is idempotent per log group and the worker keeps no shared
\* in-memory state.
C22_OverlapLeavesSameSubscriptions ==
  /\ [](subscriptionFilters \subseteq SubscribedAlone)
  /\ [](subscriptionFilters = UNION {SubscribedBy(i) : i \in Invocations})
  /\ [](\A i \in Invocations : RunsAsAlone(i))
  /\ []((BothEnded /\ \E i \in Invocations :
                        /\ inv[i].result = "OK"
                        /\ \A k \in 1..Len(inv[i].requests) :
                             inv[i].requests[k].call = "ok")
          => subscriptionFilters = SubscribedAlone)
  /\ [][\E i \in Invocations :
          \A j \in Invocations \ {i} : inv'[j] = inv[j]]_vars

\* both invocations have ended with 'OK', each call of each succeeded, and
\* two log groups are subscribed
C22_Witness ==
  /\ BothEnded
  /\ \A i \in Invocations :
       /\ inv[i].result = "OK"
       /\ Len(inv[i].requests) = 2
       /\ \A k \in 1..Len(inv[i].requests) : inv[i].requests[k].call = "ok"
  /\ Cardinality(subscriptionFilters) = 2

\* the invocations are both in the middle of their requests, each with one
\* answered that the other still waits for (reachable)
OverlapInterleaved ==
  ~ /\ \A i \in Invocations : inv[i].pc = "subscribing" /\ Len(inv[i].requests) = 2
    /\ inv["first"].requests[1].call = "ok"
    /\ inv["first"].requests[2].call = "inflight"
    /\ inv["second"].requests[1].call = "inflight"
    /\ inv["second"].requests[2].call = "ok"

=============================================================================
